---- MODULE Spec2Model ----
(***************************************************************************)
(* State-machine model of the STMEngine rendering core: the mesh pools and *)
(* slot table (mesh.cpp, loader_md2.cpp), the entity transform hierarchy   *)
(* and the animator tick (entity.cpp).                                     *)
(*                                                                         *)
(* uint32_t values.  TLC integers are 32-bit signed, so a uint32_t value x *)
(* is represented by the integer congruent to x modulo 2^32 that lies in   *)
(* -2^31 .. 2^31-1 (its two's-complement bit pattern): 0xFFFFFFFF is -1,   *)
(* 0x80000000 is MinInt32.  U32Add, U32Gt and U32Ge are the unsigned       *)
(* operations of the C code on that representation.                        *)
(***************************************************************************)
EXTENDS Integers, Sequences, FiniteSets, TLC

----------------------------------------------------------------------------
(* 32-bit unsigned arithmetic *)

MaxInt32 == (1073741824 - 1) + 1073741824
MinInt32 == (-MaxInt32) - 1

\* (a + b) mod 2^32 on the representation, without leaving the 32-bit range
U32Add(a, b) ==
    IF a >= 0 /\ b >= 0
    THEN IF a > MaxInt32 - b
         THEN ((a - MaxInt32) + (b - MaxInt32)) - 2
         ELSE a + b
    ELSE IF a < 0 /\ b < 0
    THEN IF a < MinInt32 - b
         THEN (a - MinInt32) + (b - MinInt32)
         ELSE a + b
    ELSE a + b

\* unsigned a > b
U32Gt(a, b) == IF (a >= 0) = (b >= 0) THEN a > b ELSE a < 0

\* unsigned a >= b
U32Ge(a, b) == a = b \/ U32Gt(a, b)

\* conversion to uint16_t
U16(x) == x % 65536

----------------------------------------------------------------------------
(* Mesh pools and slot table *)

\* The mesh slot table is scaled down so that TLC can fill it (MAX_MESHES is
\* 64 in the source); the pool capacities are those of mesh.h.
MAX_MESHES == 2
MAX_TOTAL_VERTICES == 40960
MAX_TOTAL_INDICES == 81920
MAX_MD2_FRAMES == 200
MAX_MD2_VERTICES == 204800

\* the sentinel 0xFFFFFFFF
NO_SPACE == -1

\* vertex and index counts of the generated primitives
CUBE_VERTICES == 24
CUBE_INDICES == 36
PLANE_VERTICES == 4
PLANE_INDICES == 6

\* MD2 header constants
MD2_MAGIC == 844121161
MD2_VERSION == 8

\* the longest face list of an OBJ text the model loads
MaxFaces == 1

\* the number of mesh calls in a run of the mesh model
MaxMeshOps == 3

VARIABLES
    g_vertex_used,      \* uint32_t g_vertex_used
    g_index_used,       \* uint32_t g_index_used
    g_frame_used,       \* uint32_t g_frame_used
    g_md2_vertex_used,  \* uint32_t g_md2_vertex_used
    g_md2_uv_used,      \* uint32_t g_md2_uv_used
    g_meshes,           \* MeshSlot_t g_meshes[MAX_MESHES]
    mesh_call,          \* the last mesh call: its name, argument and return value
    mesh_ops            \* the number of mesh calls made so far

\* The contents of a pool are kept as the list of the runs written to it, the
\* latest last (see Run below): element k of the pool is what the last run
\* that covers k wrote there, and zero when no run covers it.
VARIABLES
    g_vertex_pool,      \* Vertex_t g_vertex_pool[MAX_TOTAL_VERTICES]
    g_index_pool,       \* uint16_t g_index_pool[MAX_TOTAL_INDICES]
    g_frame_pool,       \* MD2FrameDesc_t g_frame_pool[MAX_MD2_FRAMES]
    g_md2_vertex_pool,  \* MD2Vertex_t g_md2_vertex_pool[MAX_MD2_VERTICES]
    g_md2_uv_pool,      \* MD2UV_t g_md2_uv_pool[MAX_MD2_VERTICES]
    load_call,          \* the last loader call: its input and the bytes it read
    md2_eval            \* the evaluator call made last (none when the last
                        \* mesh call was not an evaluator call)

pool_vars == <<g_vertex_pool, g_index_pool, g_frame_pool, g_md2_vertex_pool,
               g_md2_uv_pool, load_call>>

mesh_vars == <<g_vertex_used, g_index_used, g_frame_used, g_md2_vertex_used,
               g_md2_uv_used, g_meshes, mesh_call, mesh_ops, pool_vars, md2_eval>>

VARIABLES
    g_entities,     \* Entity_t g_entities[MAX_ENTITIES]: id and components
    g_transforms,   \* Transform_t g_transforms[MAX_ENTITIES]
    g_animators,    \* Animator_t g_animators[MAX_ENTITIES]
    g_next_id,      \* uint32_t g_next_id
    xf_call,        \* the last entity call: its name and arguments
    xf_passes,      \* the sweeps the last Entity_UpdateTransforms made
    xf_ops          \* the number of entity calls made so far

xf_vars == <<g_entities, g_transforms, g_animators, g_next_id, xf_call, xf_passes, xf_ops>>

VARIABLES
    anim_call,      \* the last animator call: its name and arguments
    anim_ops        \* the number of animator calls made so far

anim_vars == <<anim_call, anim_ops>>

VARIABLES
    g_device,       \* Device* g_device: TRUE when a render target is set
    g_stats,        \* RasterizerStats_t g_stats
    g_pixels,       \* the pixels <<x, y>> given to Device::PutPixel so far
    g_view_matrix,  \* Mat4 g_view_matrix
    g_proj_matrix,  \* Mat4 g_proj_matrix
    rast_call,      \* the last rasterizer or render call and what it did
    rast_ops        \* the number of rasterizer and render calls made so far

camera_vars == <<g_view_matrix, g_proj_matrix>>

rast_vars == <<g_device, g_stats, g_pixels, camera_vars, rast_call, rast_ops>>

VARIABLES
    g_framebuffer,  \* uint16_t* g_framebuffer: TRUE when a framebuffer is set
    framebuffer,    \* the RGB565 values of the framebuffer, by pixel <<x, y>>
    zbuffer,        \* uint16_t zbuffer[DISPLAY_WIDTH * DISPLAY_HEIGHT], by pixel
    depth_cleared,  \* Rasterizer_ClearDepth has run
    fragments       \* the fragments the draw calls have produced since the
                    \* depth buffer was last cleared: pixel, depth and colour

fb_vars == <<g_framebuffer, framebuffer, zbuffer, depth_cleared, fragments>>

vars == <<mesh_vars, xf_vars, anim_vars, rast_vars, fb_vars>>

MeshIds == 0 .. (MAX_MESHES - 1)

\* a zeroed MeshSlot_t: type 0 (free); the descriptor union holds the fields of
\* the member written last (stat or anim)
FreeSlot == [type |-> 0]

\* no loader call and no evaluator call made yet
NoLoad == [op |-> "none", input |-> 0, read_end |-> 0, ret |-> 0]
NoEval == [op |-> "none"]

MeshInitState ==
    /\ g_vertex_pool = <<>>
    /\ g_index_pool = <<>>
    /\ g_frame_pool = <<>>
    /\ g_md2_vertex_pool = <<>>
    /\ g_md2_uv_pool = <<>>
    /\ load_call = NoLoad
    /\ md2_eval = NoEval
    /\ g_vertex_used = 0
    /\ g_index_used = 0
    /\ g_frame_used = 0
    /\ g_md2_vertex_used = 0
    /\ g_md2_uv_used = 0
    /\ g_meshes = [i \in MeshIds |-> FreeSlot]
    /\ mesh_call = [op |-> "none", arg |-> 0, ret |-> 0]
    /\ mesh_ops = 0

\* void Mesh_Init(void)
Mesh_Init ==
    /\ mesh_ops < MaxMeshOps
    /\ g_meshes' = [i \in MeshIds |-> FreeSlot]
    /\ g_vertex_used' = 0
    /\ g_index_used' = 0
    /\ g_frame_used' = 0
    /\ g_md2_vertex_used' = 0
    /\ g_md2_uv_used' = 0
    /\ mesh_call' = [op |-> "Mesh_Init", arg |-> 0, ret |-> 0]
    /\ mesh_ops' = mesh_ops + 1
    /\ md2_eval' = NoEval
    /\ UNCHANGED pool_vars
    /\ UNCHANGED <<xf_vars, anim_vars, rast_vars, fb_vars>>

\* AllocMeshSlot with the type test dropped: always the first slot
AllocMeshSlot_NoTypeTest(meshes) == 0

\* uint32_t AllocMeshSlot(void): the first slot of type 0
AllocMeshSlot(meshes) ==
    IF \E i \in MeshIds : meshes[i].type = 0
    THEN CHOOSE i \in MeshIds :
            /\ meshes[i].type = 0
            /\ \A j \in MeshIds : j < i => meshes[j].type # 0
    ELSE NO_SPACE

\* The body shared by the five pool allocators: the result is the returned
\* offset and the pool's new used counter.
\*   if (used + count > MAX) return 0xFFFFFFFF;
\*   start = used; used += count; return start;
PoolAlloc(used, count, max) ==
    IF U32Gt(U32Add(used, count), max)
    THEN [ret |-> NO_SPACE, used |-> used]
    ELSE [ret |-> used, used |-> U32Add(used, count)]

AllocVertices(used, count) == PoolAlloc(used, count, MAX_TOTAL_VERTICES)
AllocIndices(used, count) == PoolAlloc(used, count, MAX_TOTAL_INDICES)
AllocFrames(used, count) == PoolAlloc(used, count, MAX_MD2_FRAMES)
AllocMD2Vertices(used, count) == PoolAlloc(used, count, MAX_MD2_VERTICES)
AllocMD2UVs(used, count) == PoolAlloc(used, count, MAX_MD2_VERTICES)

\* MeshSlot_t* Mesh_Get(uint32_t id): TRUE when the result is non-NULL
Mesh_Get(meshes, id) == ~(U32Ge(id, MAX_MESHES) \/ meshes[id].type = 0)

----------------------------------------------------------------------------
(* Pool contents *)

Max(a, b) == IF a >= b THEN a ELSE b
Min(a, b) == IF a <= b THEN a ELSE b

\* One run of n consecutive pool elements written from element `start` on.
\* kind and src say what was written: the element at offset j of the run is
\* element j of the data that kind and src stand for.
Run(start, n, kind, src) == [start |-> start, n |-> n, kind |-> kind, src |-> src]

\* the pool after a write of n elements (nothing is written when n <= 0)
Written(pool, start, n, kind, src) ==
    IF n > 0 THEN Append(pool, Run(start, n, kind, src)) ELSE pool

\* the index in the list of the last run that covers element k, 0 if none
LastRun(pool, k, j) ==
    LET covering == {i \in 1 .. j : pool[i].start <= k /\ k < pool[i].start + pool[i].n}
    IN  IF covering = {} THEN 0
        ELSE CHOOSE i \in covering : \A i2 \in covering : i2 <= i

\* the run that wrote element k of a pool and k's offset in that run; a
\* pool is static storage, so an element never written is zero
ZeroRun == Run(0, 0, "zero", 0)
PoolAt(pool, k) ==
    LET At(j) == IF j = 0 THEN [run |-> ZeroRun, off |-> 0]
                 ELSE [run |-> pool[j], off |-> k - pool[j].start]
    IN  At(LastRun(pool, k, Len(pool)))

----------------------------------------------------------------------------
(* MD2 files *)

\* sizeof(MD2Header_t), sizeof(MD2TexCoord_t), sizeof(MD2Triangle_t),
\* sizeof(MD2FrameVert_t) and offsetof(MD2FrameData_t, verts)
MD2_HEADER_SIZE == 68
MD2_TEXCOORD_SIZE == 4
MD2_TRIANGLE_SIZE == 12
MD2_VERT_SIZE == 4
MD2_FRAME_HEADER == 40

\* the number of entries of the MD2 normal table
MD2_NORMALS == 162

\* An MD2 buffer `a` is the record of its size, of the header fields the
\* loader reads, of a seed that stands for the data bytes, and of junk: the
\* value that memory past the end of the buffer happens to hold (reading it is
\* undefined behaviour, so every loader input comes with each value of Junk).
Junk == {0, 255}

\* the len bytes at offset off lie inside the buffer
InBuf(a, off, len) == off >= 0 /\ off + len <= a.size

\* MD2Triangle_t tris[i]: vertex[k] and texcoord[j]
TriVertex(a, i, k) ==
    IF InBuf(a, a.offset_triangles + MD2_TRIANGLE_SIZE * i + 2 * k, 2)
    THEN (i + k) % Max(1, a.num_vertices)
    ELSE a.junk

TriTexcoord(a, i, j) ==
    IF InBuf(a, a.offset_triangles + MD2_TRIANGLE_SIZE * i + 6 + 2 * j, 2)
    THEN (3 * i + j) % Max(1, a.num_texcoords)
    ELSE a.junk

\* MD2TexCoord_t src_uvs[idx]: s and t
TexCoordS(a, idx) ==
    IF InBuf(a, a.offset_texcoords + MD2_TEXCOORD_SIZE * idx, 2)
    THEN (a.seed + idx) % 256
    ELSE a.junk

TexCoordT(a, idx) ==
    IF InBuf(a, a.offset_texcoords + MD2_TEXCOORD_SIZE * idx + 2, 2)
    THEN (a.seed + 2 * idx) % 256
    ELSE a.junk

\* MD2FrameData_t of frame f: scale, translate and verts[v]
FrameOffset(a, f) == a.offset_frames + f * a.frame_size

FrameScale(a, f) ==
    IF InBuf(a, FrameOffset(a, f), 12)
    THEN <<2, 4, 2 * (f + 1)>>
    ELSE <<a.junk, a.junk, a.junk>>

FrameTranslate(a, f) ==
    IF InBuf(a, FrameOffset(a, f) + 12, 12)
    THEN <<2 * a.seed, 2 * f, 0>>
    ELSE <<a.junk, a.junk, a.junk>>

FrameVert(a, f, v) ==
    IF InBuf(a, FrameOffset(a, f) + MD2_FRAME_HEADER + MD2_VERT_SIZE * v, MD2_VERT_SIZE)
    THEN [x |-> (16 * a.seed + 4 * f + v) % 256, y |-> (f + 1 + v * v) % 256,
          z |-> (v + 1) % 256, normal_index |-> (a.seed + f + v) % 256]
    ELSE [x |-> a.junk, y |-> a.junk, z |-> a.junk, normal_index |-> a.junk]

\* The end of the bytes the triangle loop of Mesh_LoadMD2 reads from tris[]
TriReadEnd(a) ==
    IF a.num_triangles > 0
    THEN a.offset_triangles + MD2_TRIANGLE_SIZE * a.num_triangles
    ELSE 0

\* how many of the 3 * num_triangles texcoord index fields, in the order the
\* loop reads them, lie inside the buffer
UvFieldsInBuf(a) ==
    LET room == a.size - a.offset_triangles - 8
    IN  IF room < 0 \/ a.offset_triangles < 0 THEN 0
        ELSE Min(3 * a.num_triangles,
                 3 * (room \div MD2_TRIANGLE_SIZE)
                    + Min(3, ((room % MD2_TRIANGLE_SIZE) \div 2) + 1))

\* the largest uv_idx the loop reads src_uvs[] at
MaxUvIdx(a) ==
    LET m == UvFieldsInBuf(a)
        inside == IF m > 0 THEN Min(m - 1, Max(1, a.num_texcoords) - 1) ELSE -1
        outside == IF m < 3 * a.num_triangles THEN a.junk ELSE -1
    IN  Max(inside, outside)

\* The end of the bytes the triangle loop reads from src_uvs[]
TexReadEnd(a) ==
    IF a.num_triangles > 0
    THEN a.offset_texcoords + MD2_TEXCOORD_SIZE * (MaxUvIdx(a) + 1)
    ELSE 0

\* The end of the bytes the frame loop reads: of the last frame the scale and
\* translate, and the verts when there are any
FrameReadEnd(a) ==
    IF a.num_frames > 0
    THEN FrameOffset(a, a.num_frames - 1)
            + (IF a.num_vertices > 0
               THEN MD2_FRAME_HEADER + MD2_VERT_SIZE * a.num_vertices
               ELSE 24)
    ELSE 0

\* The end of the bytes the header's offsets and counts declare
DeclaredEnd(a) ==
    Max(Max(a.offset_texcoords + MD2_TEXCOORD_SIZE * Max(0, a.num_texcoords),
            a.offset_triangles + MD2_TRIANGLE_SIZE * Max(0, a.num_triangles)),
        a.offset_frames + Max(0, a.num_frames) * a.frame_size)

\* A well-formed MD2 file with the given counts: header, texcoords (one per
\* vertex), triangles and frames laid out back to back.
Md2File(seed, num_frames, num_triangles, num_vertices) ==
    LET nv == Max(0, num_vertices)
        off_tri == MD2_HEADER_SIZE + MD2_TEXCOORD_SIZE * nv
        off_fr == off_tri + MD2_TRIANGLE_SIZE * Max(0, num_triangles)
        fsize == MD2_FRAME_HEADER + MD2_VERT_SIZE * nv
    IN  [size |-> off_fr + Max(0, num_frames) * fsize,
         magic |-> MD2_MAGIC, version |-> MD2_VERSION,
         skin_width |-> 256, skin_height |-> 256,
         frame_size |-> fsize,
         num_vertices |-> num_vertices, num_texcoords |-> nv,
         num_triangles |-> num_triangles, num_frames |-> num_frames,
         offset_texcoords |-> MD2_HEADER_SIZE, offset_triangles |-> off_tri,
         offset_frames |-> off_fr,
         seed |-> seed, junk |-> 0]

----------------------------------------------------------------------------
(* Inputs of the mesh calls *)

\* Counts passed to a pool allocator called directly: 0, 1, the count that
\* fills the pool exactly, one more than that, the count 2^32 - used that
\* wraps the 32-bit sum used + count around to zero, 0x80000000 and 0xFFFFFFFF.
AllocCounts(used, max) ==
    {0, 1, max - used, (max - used) + 1, -used, MinInt32, NO_SPACE}

\* An OBJ text as Mesh_LoadOBJ sees it: whether data is non-NULL with
\* size > 0, the numbers of its "v", "vt" and "vn" lines, and for every "f "
\* line the number of corner references "r/r/r" that ParseFaceIdx reads from
\* it.  The first corner of every face refers to line first_ref (from the end
\* when negative), the others to lines 2, 3 and 4.
FaceCorners == {2, 3, 4}
FaceLists == UNION {[1 .. n -> FaceCorners] : n \in 0 .. MaxFaces}
ObjText(n, first_ref, faces) ==
    [present |-> TRUE, n_pos |-> n, n_uv |-> n, n_norm |-> n,
     first_ref |-> first_ref, faces |-> faces]
ObjInputs ==
    {[ObjText(4, 1, <<>>) EXCEPT !.present = FALSE]}
        \cup {ObjText(4, 1, f) : f \in FaceLists}

\* The MD2 buffers of the pool model: well-formed files over the header
\* counts the loader sizes its reservations with (int32_t), a buffer shorter
\* than the header, and headers with a wrong magic or version.
Md2Headers ==
    {Md2File(1, nf, nt, nv) : nf \in {-1, 1, 2, MAX_MD2_FRAMES + 1},
                              nt \in {-1, 0, 2},
                              nv \in {-1, 3}}
Md2Rejects ==
    {[Md2File(1, 1, 1, 1) EXCEPT !.size = MD2_HEADER_SIZE - 1],
     [Md2File(1, 1, 1, 1) EXCEPT !.magic = 0],
     [Md2File(1, 1, 1, 1) EXCEPT !.version = MD2_VERSION - 1]}
Md2Inputs == Md2Headers \cup Md2Rejects

\* Handles passed to Mesh_Free: every slot, the first handle past the table
\* and the sentinel.
FreeIds == MeshIds \cup {MAX_MESHES, NO_SPACE}

----------------------------------------------------------------------------
(* Mesh calls *)

Called(op, arg, ret) ==
    /\ mesh_call' = [op |-> op, arg |-> arg, ret |-> ret]
    /\ mesh_ops' = mesh_ops + 1
    /\ md2_eval' = NoEval
    /\ UNCHANGED <<xf_vars, anim_vars, rast_vars, fb_vars>>

CallAllocVertices(n) ==
    LET r == AllocVertices(g_vertex_used, n) IN
    /\ mesh_ops < MaxMeshOps
    /\ g_vertex_used' = r.used
    /\ Called("AllocVertices", n, r.ret)
    /\ UNCHANGED pool_vars
    /\ UNCHANGED <<g_index_used, g_frame_used, g_md2_vertex_used, g_md2_uv_used, g_meshes>>

CallAllocIndices(n) ==
    LET r == AllocIndices(g_index_used, n) IN
    /\ mesh_ops < MaxMeshOps
    /\ g_index_used' = r.used
    /\ Called("AllocIndices", n, r.ret)
    /\ UNCHANGED pool_vars
    /\ UNCHANGED <<g_vertex_used, g_frame_used, g_md2_vertex_used, g_md2_uv_used, g_meshes>>

CallAllocFrames(n) ==
    LET r == AllocFrames(g_frame_used, n) IN
    /\ mesh_ops < MaxMeshOps
    /\ g_frame_used' = r.used
    /\ Called("AllocFrames", n, r.ret)
    /\ UNCHANGED pool_vars
    /\ UNCHANGED <<g_vertex_used, g_index_used, g_md2_vertex_used, g_md2_uv_used, g_meshes>>

CallAllocMD2Vertices(n) ==
    LET r == AllocMD2Vertices(g_md2_vertex_used, n) IN
    /\ mesh_ops < MaxMeshOps
    /\ g_md2_vertex_used' = r.used
    /\ Called("AllocMD2Vertices", n, r.ret)
    /\ UNCHANGED pool_vars
    /\ UNCHANGED <<g_vertex_used, g_index_used, g_frame_used, g_md2_uv_used, g_meshes>>

CallAllocMD2UVs(n) ==
    LET r == AllocMD2UVs(g_md2_uv_used, n) IN
    /\ mesh_ops < MaxMeshOps
    /\ g_md2_uv_used' = r.used
    /\ Called("AllocMD2UVs", n, r.ret)
    /\ UNCHANGED pool_vars
    /\ UNCHANGED <<g_vertex_used, g_index_used, g_frame_used, g_md2_vertex_used, g_meshes>>

\* The StaticMeshDesc_t fields a loader writes (uint16_t each)
StaticSlot(v_start, v_count, i_start, i_count) ==
    [type |-> 1,
     stat |-> [vertex_start |-> U16(v_start), vertex_count |-> U16(v_count),
               index_start |-> U16(i_start), index_count |-> U16(i_count)]]

\* Mesh_CreateCube and Mesh_CreatePlane: claim a slot, reserve nv vertices and
\* ni indices (both reservations are made before either result is tested),
\* then write the descriptor.
CreatePrimitive(op, nv, ni) ==
    LET slot == AllocMeshSlot(g_meshes)
        v == AllocVertices(g_vertex_used, nv)
        i == AllocIndices(g_index_used, ni)
    IN  IF slot = NO_SPACE
        THEN /\ Called(op, 0, NO_SPACE)
             /\ UNCHANGED <<g_vertex_used, g_index_used, g_meshes>>
             /\ UNCHANGED <<g_vertex_pool, g_index_pool>>
        ELSE /\ g_vertex_used' = v.used
             /\ g_index_used' = i.used
             /\ IF v.ret = NO_SPACE \/ i.ret = NO_SPACE
                THEN /\ Called(op, 0, NO_SPACE)
                     /\ UNCHANGED g_meshes
                     /\ UNCHANGED <<g_vertex_pool, g_index_pool>>
                ELSE /\ g_vertex_pool' = Written(g_vertex_pool, v.ret, nv, op, 0)
                     /\ g_index_pool' = Written(g_index_pool, i.ret, ni, op, 0)
                     /\ g_meshes' = [g_meshes EXCEPT
                                        ![slot] = StaticSlot(v.ret, nv, i.ret, ni)]
                     /\ Called(op, 0, slot)

\* uint32_t Mesh_CreateCube(float size)
Mesh_CreateCube ==
    /\ mesh_ops < MaxMeshOps
    /\ CreatePrimitive("Mesh_CreateCube", CUBE_VERTICES, CUBE_INDICES)
    /\ UNCHANGED <<g_frame_used, g_md2_vertex_used, g_md2_uv_used>>
    /\ UNCHANGED <<g_frame_pool, g_md2_vertex_pool, g_md2_uv_pool, load_call>>

\* uint32_t Mesh_CreatePlane(float w, float h)
Mesh_CreatePlane ==
    /\ mesh_ops < MaxMeshOps
    /\ CreatePrimitive("Mesh_CreatePlane", PLANE_VERTICES, PLANE_INDICES)
    /\ UNCHANGED <<g_frame_used, g_md2_vertex_used, g_md2_uv_used>>
    /\ UNCHANGED <<g_frame_pool, g_md2_vertex_pool, g_md2_uv_pool, load_call>>

\* the capacity of the temporary parse arrays s_obj_pos, s_obj_norm, s_obj_uv
OBJ_MAX_POS == 2048
OBJ_MAX_NORM == 2048
OBJ_MAX_UV == 2048

\* First pass of Mesh_LoadOBJ: the numbers of "v", "vt" and "vn" lines stored
ObjCounts(obj) ==
    [pos_count |-> Min(obj.n_pos, OBJ_MAX_POS),
     uv_count |-> Min(obj.n_uv, OBJ_MAX_UV),
     norm_count |-> Min(obj.n_norm, OBJ_MAX_NORM)]

\* s_obj_pos[k - 1], s_obj_uv[k - 1] and s_obj_norm[k - 1]: what the first
\* pass stores for the k-th "v", "vt" and "vn" line of the text (the texture
\* V is flipped, the normal is normalised)
ObjPos(k) == <<k, 0, 0>>
ObjUV(k) == <<k, 1 - k>>
ObjNorm(k) == <<0, 0, 1>>

\* The reference "r/r/r" that corner c (counted from 0) of a face line holds
CornerRef(obj, c) == IF c = 0 THEN obj.first_ref ELSE c + 1

\* The face loop stopping after three corners
ParsedCorners_ThreeOnly(obj, k) == IF obj.first_ref = 0 THEN 0 ELSE Min(3, obj.faces[k])

\* The corners the face loop keeps of the k-th face line: it stops at the
\* first reference whose position index is 0 and after four corners
ParsedCorners(obj, k) == IF obj.first_ref = 0 THEN 0 ELSE Min(4, obj.faces[k])

\* The Vertex_t that the third pass emits for a corner with reference r
ObjVertex(r, n) ==
    LET vi == IF r > 0 THEN r - 1 ELSE n.pos_count + r
        ti == IF r > 0 THEN r - 1 ELSE IF r < 0 THEN n.uv_count + r ELSE -1
        ni == IF r > 0 THEN r - 1 ELSE IF r < 0 THEN n.norm_count + r ELSE -1
    IN  [position |-> IF vi >= 0 /\ vi < n.pos_count THEN ObjPos(vi + 1) ELSE <<0, 0, 0>>,
         texcoord |-> IF ti >= 0 /\ ti < n.uv_count THEN ObjUV(ti + 1) ELSE <<0, 0>>,
         normal |-> IF ni >= 0 /\ ni < n.norm_count THEN ObjNorm(ni + 1) ELSE <<0, 1, 0>>]

\* Third pass of Mesh_LoadOBJ over the face lines from line k on: the vertices
\* out_v[0 .. v_count) and the indices out_i[0 .. i_count) emitted.
RECURSIVE BuildFaces(_, _, _, _, _, _)
BuildFaces(obj, k, out_v, out_i, max_verts, max_indices) ==
    IF k > Len(obj.faces) THEN [out_v |-> out_v, out_i |-> out_i]
    ELSE LET fc == ParsedCorners(obj, k)
             base == Len(out_v)
             n == ObjCounts(obj)
             V(c) == ObjVertex(CornerRef(obj, c), n)
         IN  IF fc >= 3 /\ Len(out_v) + fc <= max_verts /\ Len(out_i) + 6 <= max_indices
             THEN BuildFaces(obj, k + 1,
                     out_v \o (IF fc = 4 THEN <<V(0), V(1), V(2), V(3)>>
                                         ELSE <<V(0), V(1), V(2)>>),
                     out_i \o <<U16(base), U16(base + 1), U16(base + 2)>>
                           \o (IF fc = 4 THEN <<U16(base), U16(base + 2), U16(base + 3)>>
                                         ELSE <<>>),
                     max_verts, max_indices)
             ELSE BuildFaces(obj, k + 1, out_v, out_i, max_verts, max_indices)

\* uint32_t Mesh_LoadOBJ(const void* data, uint32_t size)
Mesh_LoadOBJ(obj) ==
    LET face_count == Len(obj.faces)
        max_verts == face_count * 4
        max_indices == face_count * 6
        slot == AllocMeshSlot(g_meshes)
        v == AllocVertices(g_vertex_used, max_verts)
        i == AllocIndices(g_index_used, max_indices)
    IN  /\ mesh_ops < MaxMeshOps
        /\ UNCHANGED <<g_frame_used, g_md2_vertex_used, g_md2_uv_used>>
        /\ UNCHANGED <<g_frame_pool, g_md2_vertex_pool, g_md2_uv_pool>>
        /\ IF ~obj.present \/ slot = NO_SPACE
           THEN /\ Called("Mesh_LoadOBJ", 0, NO_SPACE)
                /\ UNCHANGED <<g_vertex_used, g_index_used, g_meshes>>
                /\ UNCHANGED <<g_vertex_pool, g_index_pool>>
           ELSE IF v.ret = NO_SPACE \/ i.ret = NO_SPACE
           THEN /\ g_vertex_used' = v.used
                /\ g_index_used' = i.used
                /\ Called("Mesh_LoadOBJ", 0, NO_SPACE)
                /\ UNCHANGED g_meshes
                /\ UNCHANGED <<g_vertex_pool, g_index_pool>>
           ELSE \E built \in {BuildFaces(obj, 1, <<>>, <<>>, max_verts, max_indices)} :
                /\ g_vertex_used' = U32Add(v.ret, Len(built.out_v))
                /\ g_index_used' = U32Add(i.ret, Len(built.out_i))
                /\ g_vertex_pool' = Written(g_vertex_pool, v.ret, Len(built.out_v),
                                            "list", built.out_v)
                /\ g_index_pool' = Written(g_index_pool, i.ret, Len(built.out_i),
                                           "list", built.out_i)
                /\ g_meshes' = [g_meshes EXCEPT
                        ![slot] = StaticSlot(v.ret, Len(built.out_v),
                                             i.ret, Len(built.out_i))]
                /\ Called("Mesh_LoadOBJ", 0, slot)
        /\ load_call' = [op |-> "Mesh_LoadOBJ", input |-> obj, read_end |-> 0,
                         ret |-> mesh_call'.ret]

\* The AnimatedMeshDesc_t fields Mesh_LoadMD2 writes (uint16_t each)
AnimatedSlot(frame_start, num_frames, idx_start, num_idx, num_vertices, uv_start, num_uvs) ==
    [type |-> 2,
     anim |-> [frame_start |-> U16(frame_start), frame_count |-> U16(num_frames),
               index_start |-> U16(idx_start), index_count |-> U16(num_idx),
               verts_per_frame |-> U16(num_vertices),
               uv_start |-> U16(uv_start), uv_count |-> U16(num_uvs)]]

\* The frame loop's writes to g_md2_vertex_pool from frame f on: frame f's
\* num_vertices compressed vertices go to out_verts[f * num_vertices] on.
WriteFrameVerts(pool, a, vert_start, f) ==
    IF f >= a.num_frames \/ a.num_vertices <= 0 THEN pool
    ELSE pool \o [k \in 1 .. (a.num_frames - f) |->
                    Run(vert_start + (f + k - 1) * a.num_vertices, a.num_vertices,
                        "md2", [a |-> a, f |-> f + k - 1])]

\* what Mesh_LoadMD2 has read of the buffer when it returns
Md2Loaded(a, read_end, ret) ==
    [op |-> "Mesh_LoadMD2", input |-> a, read_end |-> read_end, ret |-> ret]

\* uint32_t Mesh_LoadMD2(const void* data, uint32_t size)
Mesh_LoadMD2(hdr) ==
    LET slot == AllocMeshSlot(g_meshes)
        num_uvs == hdr.num_triangles * 3
        uv == AllocMD2UVs(g_md2_uv_used, num_uvs)
        idx == AllocIndices(g_index_used, hdr.num_triangles * 3)
        fr == AllocFrames(g_frame_used, hdr.num_frames)
        total_verts == hdr.num_frames * hdr.num_vertices
        vt == AllocMD2Vertices(g_md2_vertex_used, total_verts)
        Fail == Called("Mesh_LoadMD2", 0, NO_SPACE)
        tri_end == Max(MD2_HEADER_SIZE, Max(TriReadEnd(hdr), TexReadEnd(hdr)))
    IN  /\ mesh_ops < MaxMeshOps
        /\ UNCHANGED <<g_vertex_used, g_vertex_pool>>
        /\ IF hdr.size < MD2_HEADER_SIZE
           THEN /\ Fail
                /\ load_call' = Md2Loaded(hdr, 0, NO_SPACE)
                /\ UNCHANGED <<g_index_used, g_frame_used, g_md2_vertex_used,
                               g_md2_uv_used, g_meshes>>
                /\ UNCHANGED <<g_index_pool, g_md2_uv_pool, g_frame_pool,
                               g_md2_vertex_pool>>
           ELSE IF \/ hdr.magic # MD2_MAGIC \/ hdr.version # MD2_VERSION
                   \/ hdr.num_frames > MAX_MD2_FRAMES
                   \/ slot = NO_SPACE
                   \/ uv.ret = NO_SPACE
           THEN /\ Fail
                /\ load_call' = Md2Loaded(hdr, MD2_HEADER_SIZE, NO_SPACE)
                /\ UNCHANGED <<g_index_used, g_frame_used, g_md2_vertex_used,
                               g_md2_uv_used, g_meshes>>
                /\ UNCHANGED <<g_index_pool, g_md2_uv_pool, g_frame_pool,
                               g_md2_vertex_pool>>
           ELSE IF idx.ret = NO_SPACE
           THEN /\ g_md2_uv_used' = uv.used
                /\ Fail
                /\ load_call' = Md2Loaded(hdr, MD2_HEADER_SIZE, NO_SPACE)
                /\ UNCHANGED <<g_index_used, g_frame_used, g_md2_vertex_used, g_meshes>>
                /\ UNCHANGED <<g_index_pool, g_md2_uv_pool, g_frame_pool,
                               g_md2_vertex_pool>>
           ELSE /\ g_md2_uv_used' = uv.used
                /\ g_index_used' = idx.used
                /\ g_index_pool' = Written(g_index_pool, idx.ret,
                                           3 * hdr.num_triangles, "md2", hdr)
                /\ g_md2_uv_pool' = Written(g_md2_uv_pool, uv.ret,
                                            3 * hdr.num_triangles, "md2", hdr)
                /\ IF fr.ret = NO_SPACE
                   THEN /\ Fail
                        /\ load_call' = Md2Loaded(hdr, tri_end, NO_SPACE)
                        /\ UNCHANGED <<g_frame_used, g_md2_vertex_used, g_meshes>>
                        /\ UNCHANGED <<g_frame_pool, g_md2_vertex_pool>>
                   ELSE IF vt.ret = NO_SPACE
                   THEN /\ g_frame_used' = fr.used
                        /\ Fail
                        /\ load_call' = Md2Loaded(hdr, tri_end, NO_SPACE)
                        /\ UNCHANGED <<g_md2_vertex_used, g_meshes>>
                        /\ UNCHANGED <<g_frame_pool, g_md2_vertex_pool>>
                   ELSE /\ g_frame_used' = fr.used
                        /\ g_md2_vertex_used' = vt.used
                        /\ g_frame_pool' = Written(g_frame_pool, fr.ret, hdr.num_frames,
                                                   "md2", [a |-> hdr, vert_start |-> vt.ret])
                        /\ g_md2_vertex_pool' =
                                WriteFrameVerts(g_md2_vertex_pool, hdr, vt.ret, 0)
                        /\ g_meshes' = [g_meshes EXCEPT
                                ![slot] = AnimatedSlot(fr.ret, hdr.num_frames, idx.ret,
                                                       hdr.num_triangles * 3,
                                                       hdr.num_vertices, uv.ret, num_uvs)]
                        /\ load_call' = Md2Loaded(hdr, Max(tri_end, FrameReadEnd(hdr)), slot)
                        /\ Called("Mesh_LoadMD2", 0, slot)

\* void Mesh_Free(uint32_t id)
Mesh_Free(id) ==
    /\ mesh_ops < MaxMeshOps
    /\ g_meshes' = IF U32Gt(MAX_MESHES, id)
                   THEN [g_meshes EXCEPT ![id].type = 0]
                   ELSE g_meshes
    /\ Called("Mesh_Free", id, 0)
    /\ UNCHANGED pool_vars
    /\ UNCHANGED <<g_vertex_used, g_index_used, g_frame_used, g_md2_vertex_used,
                   g_md2_uv_used>>

----------------------------------------------------------------------------
(* Reading the pools *)

\* uint16_t indices[36] of Mesh_CreateCube and idx[0 .. 5] of Mesh_CreatePlane
CubeIndexTable ==
    << 0, 1, 2, 0, 2, 3,  4, 5, 6, 4, 6, 7,  8, 9, 10, 8, 10, 11,
       12, 13, 14, 12, 14, 15,  16, 17, 18, 16, 18, 19,  20, 21, 22, 20, 22, 23 >>
PlaneIndexTable == << 0, 2, 1, 0, 3, 2 >>

\* the order in which Mesh_LoadMD2 stores a triangle's vertex[] (v0, v2, v1)
Md2Winding == << 0, 2, 1 >>

\* g_index_pool[k]
IndexOf(r) ==
    CASE r.run.kind = "Mesh_CreateCube" -> CubeIndexTable[r.off + 1]
      [] r.run.kind = "Mesh_CreatePlane" -> PlaneIndexTable[r.off + 1]
      [] r.run.kind = "list" -> r.run.src[r.off + 1]
      [] r.run.kind = "md2" ->
            U16(TriVertex(r.run.src, r.off \div 3, Md2Winding[(r.off % 3) + 1]))
      [] OTHER -> 0
IndexAt(pool, k) == IndexOf(PoolAt(pool, k))

\* g_md2_uv_pool[k]: u and v are the quotients s / skin_width and
\* t / skin_height, kept as the pairs <<s, skin_width>> and <<t, skin_height>>
UVOf(r) ==
    IF r.run.kind = "md2"
    THEN LET a == r.run.src
             uv_idx == TriTexcoord(a, r.off \div 3, r.off % 3)
         IN  [u |-> <<TexCoordS(a, uv_idx), a.skin_width>>,
              v |-> <<TexCoordT(a, uv_idx), a.skin_height>>]
    ELSE [u |-> <<0, 1>>, v |-> <<0, 1>>]
UVAt(pool, k) == UVOf(PoolAt(pool, k))

\* g_frame_pool[k]
FrameDescOf(r) ==
    IF r.run.kind = "md2"
    THEN LET a == r.run.src.a
         IN  [scale |-> FrameScale(a, r.off),
              translate |-> FrameTranslate(a, r.off),
              vertex_start |-> U16(r.run.src.vert_start + r.off * a.num_vertices),
              vertex_count |-> U16(a.num_vertices)]
    ELSE [scale |-> <<0, 0, 0>>, translate |-> <<0, 0, 0>>,
          vertex_start |-> 0, vertex_count |-> 0]
FrameDescAt(pool, k) == FrameDescOf(PoolAt(pool, k))

\* g_md2_vertex_pool[k]
Md2VertexOf(r) ==
    IF r.run.kind = "md2"
    THEN FrameVert(r.run.src.a, r.run.src.f, r.off)
    ELSE [x |-> 0, y |-> 0, z |-> 0, normal_index |-> 0]
Md2VertexAt(pool, k) == Md2VertexOf(PoolAt(pool, k))

\* What a read of g_frame_pool[k] gives: the element when k lies in the
\* array, and junk when it does not (reading outside the array is undefined)
FrameDescRead(pool, k, junk) ==
    IF k >= 0 /\ k < MAX_MD2_FRAMES THEN FrameDescAt(pool, k)
    ELSE [scale |-> <<junk, junk, junk>>, translate |-> <<junk, junk, junk>>,
          vertex_start |-> junk, vertex_count |-> junk]

Md2VertexRead(pool, k, junk) ==
    IF k >= 0 /\ k < MAX_MD2_VERTICES THEN Md2VertexAt(pool, k)
    ELSE [x |-> junk, y |-> junk, z |-> junk, normal_index |-> junk]

----------------------------------------------------------------------------
(* MD2 evaluators *)

\* An interpolation factor t is the quotient of a pair <<num, den>>.
\* Vec3_Lerp(a, b, t) = a + (b - a) * t
Lerp(a, b, t) == a + ((b - a) * t[1]) \div t[2]
Vec3_Lerp(a, b, t) == <<Lerp(a[1], b[1], t), Lerp(a[2], b[2], t), Lerp(a[3], b[3], t)>>

\* position = byte * frame.scale + frame.translate
Decompress(fd, v) ==
    <<fd.scale[1] * v.x + fd.translate[1],
      fd.scale[2] * v.y + fd.translate[2],
      fd.scale[3] * v.z + fd.translate[3]>>

\* What an evaluator returns for a handle that is not an Animated mesh, and
\* what it returns otherwise for the two frame descriptors read at g_frame_pool
\* elements ka and kb and vertex vi: the position, and of the normal
\* Normalize(Lerp(normals[ni_a], normals[ni_b], t)) the two table indices
\* (<<-1, -1>> stands for the constant normal (0, 1, 0)), and whether and where
\* g_frame_pool was read.
EvalNone ==
    [pos |-> <<0, 0, 0>>, norm |-> <<-1, -1>>, reads |-> FALSE, read_a |-> 0, read_b |-> 0]

EvalFrames(frames, verts, ka, kb, vi, t, junk) ==
    LET fa == FrameDescRead(frames, ka, junk)
        fb == FrameDescRead(frames, kb, junk)
        va == Md2VertexRead(verts, fa.vertex_start + vi, junk)
        vb == Md2VertexRead(verts, fb.vertex_start + vi, junk)
    IN  [pos |-> Vec3_Lerp(Decompress(fa, va), Decompress(fb, vb), t),
         norm |-> <<va.normal_index % MD2_NORMALS, vb.normal_index % MD2_NORMALS>>,
         reads |-> TRUE, read_a |-> ka, read_b |-> kb]

\* void Mesh_GetMD2Vertex(uint32_t mesh_id, uint32_t vert_idx,
\*     uint32_t frame_a, uint32_t frame_b, float t, Vec3* pos, Vec3* norm, Vec2* uv)
Mesh_GetMD2Vertex(meshes, frames, verts, mesh_id, vert_idx, frame_a, frame_b, t, junk) ==
    IF ~Mesh_Get(meshes, mesh_id) THEN EvalNone
    ELSE IF meshes[mesh_id].type # 2 THEN EvalNone
    ELSE LET anim == meshes[mesh_id].anim
             fa == IF U32Ge(frame_a, anim.frame_count) THEN anim.frame_count - 1 ELSE frame_a
             fb == IF U32Ge(frame_b, anim.frame_count) THEN anim.frame_count - 1 ELSE frame_b
             vi == IF U32Ge(vert_idx, anim.verts_per_frame) THEN 0 ELSE vert_idx
         IN  EvalFrames(frames, verts, U32Add(anim.frame_start, fa),
                        U32Add(anim.frame_start, fb), vi, t, junk)

\* void Mesh_GetMD2InterpolatedVertex(uint32_t mesh_id, uint32_t vertex_index,
\*     uint16_t frame_a, uint16_t frame_b, float lerp, Vec3* out_position, Vec3* out_normal)
\* (the frame arguments are converted to uint16_t by the call)
Mesh_GetMD2InterpolatedVertex(meshes, frames, verts, mesh_id, vertex_index, frame_a, frame_b, lerp, junk) ==
    IF U32Ge(mesh_id, MAX_MESHES) THEN EvalNone
    ELSE IF meshes[mesh_id].type # 2 THEN EvalNone
    ELSE LET anim == meshes[mesh_id].anim
             a16 == U16(frame_a)
             b16 == U16(frame_b)
             fa == IF a16 >= anim.frame_count THEN U16(anim.frame_count - 1) ELSE a16
             fb == IF b16 >= anim.frame_count THEN U16(anim.frame_count - 1) ELSE b16
         IN  IF U32Ge(vertex_index, anim.verts_per_frame) THEN EvalNone
             ELSE EvalFrames(frames, verts, anim.frame_start + fa,
                             anim.frame_start + fb, vertex_index, lerp, junk)

\* the two evaluators by name
Evaluate(op, mesh_id, v, frame_a, frame_b, t, junk) ==
    IF op = "Mesh_GetMD2Vertex"
    THEN Mesh_GetMD2Vertex(g_meshes, g_frame_pool, g_md2_vertex_pool,
                           mesh_id, v, frame_a, frame_b, t, junk)
    ELSE Mesh_GetMD2InterpolatedVertex(g_meshes, g_frame_pool, g_md2_vertex_pool,
                                       mesh_id, v, frame_a, frame_b, t, junk)

\* An evaluator call: nothing but the record of the call changes
Evaluated(op, mesh_id, v, frame_a, frame_b, t, junk) ==
    /\ mesh_ops < MaxMeshOps
    /\ md2_eval' = [op |-> op, mesh_id |-> mesh_id, v |-> v, frame_a |-> frame_a,
                    frame_b |-> frame_b, t |-> t, junk |-> junk,
                    out |-> Evaluate(op, mesh_id, v, frame_a, frame_b, t, junk)]
    /\ mesh_call' = [op |-> op, arg |-> mesh_id, ret |-> 0]
    /\ mesh_ops' = mesh_ops + 1
    /\ UNCHANGED <<g_vertex_used, g_index_used, g_frame_used, g_md2_vertex_used,
                   g_md2_uv_used, g_meshes, pool_vars>>
    /\ UNCHANGED <<xf_vars, anim_vars, rast_vars, fb_vars>>

CallMesh_GetMD2Vertex(mesh_id, v, frame_a, frame_b, t, junk) ==
    Evaluated("Mesh_GetMD2Vertex", mesh_id, v, frame_a, frame_b, t, junk)

CallMesh_GetMD2InterpolatedVertex(mesh_id, v, frame_a, frame_b, t, junk) ==
    Evaluated("Mesh_GetMD2InterpolatedVertex", mesh_id, v, frame_a, frame_b, t, junk)

MeshNext ==
    \/ Mesh_Init
    \/ \E n \in AllocCounts(g_vertex_used, MAX_TOTAL_VERTICES) : CallAllocVertices(n)
    \/ \E n \in AllocCounts(g_index_used, MAX_TOTAL_INDICES) : CallAllocIndices(n)
    \/ \E n \in AllocCounts(g_frame_used, MAX_MD2_FRAMES) : CallAllocFrames(n)
    \/ \E n \in AllocCounts(g_md2_vertex_used, MAX_MD2_VERTICES) : CallAllocMD2Vertices(n)
    \/ \E n \in AllocCounts(g_md2_uv_used, MAX_MD2_VERTICES) : CallAllocMD2UVs(n)
    \/ Mesh_CreateCube
    \/ Mesh_CreatePlane
    \/ \E obj \in ObjInputs : Mesh_LoadOBJ(obj)
    \/ \E hdr \in Md2Inputs : Mesh_LoadMD2(hdr)
    \/ \E id \in FreeIds : Mesh_Free(id)


----------------------------------------------------------------------------
(* The loaders and evaluators on files with contents *)

\* the least triangle count whose 3 * N no longer fits a uint16_t
BigTriangles == (65536 \div 3) + 1

\* the first g_md2_vertex_pool offset that no longer fits a uint16_t, less 2
HighVertexStart == 65536 - 2

\* MD2 buffers: well-formed files with one and two frames, with no frame, with
\* BigTriangles triangles; files cut short after the header and inside the
\* triangles; headers that must be rejected.
SmallMd2 == Md2File(2, 2, 2, 3)
Md2Files ==
    {SmallMd2, Md2File(3, 1, 2, 3), Md2File(3, 0, 2, 3),
     Md2File(2, 1, BigTriangles, 3)}
        \cup {[SmallMd2 EXCEPT !.size = sz, !.junk = j] :
                    sz \in {MD2_HEADER_SIZE, SmallMd2.offset_triangles + 8},
                    j \in Junk}
        \cup {[SmallMd2 EXCEPT !.magic = 0],
              [SmallMd2 EXCEPT !.version = MD2_VERSION + 1],
              Md2File(2, MAX_MD2_FRAMES + 1, 2, 3)}

\* OBJ texts: a cube of 8 positions and 6 quads; single and mixed faces, also
\* with 2 and 5 corners; texts with exactly OBJ_MAX_POS lines of each kind and
\* with one more, whose faces refer to the last line from the front and from
\* the end
CubeObj == ObjText(8, 1, <<4, 4, 4, 4, 4, 4>>)
ObjTexts ==
    {CubeObj, [CubeObj EXCEPT !.present = FALSE]}
        \cup {ObjText(4, 1, f) : f \in {<<>>, <<3>>, <<4>>, <<3, 4>>, <<4, 3>>, <<2, 4>>, <<5>>}}
        \cup {ObjText(n, r, <<3>>) : n \in {OBJ_MAX_POS, OBJ_MAX_POS + 1},
                                     r \in {OBJ_MAX_POS + 1, -1}}

\* evaluator arguments
EvalMeshes == MeshIds
EvalVerts == {2, 3}
EvalFrameIdx == {1, 2, 65536}
EvalLerps == {<<1, 2>>, <<3, 2>>}

LoadNext ==
    \/ \E n \in {HighVertexStart} : CallAllocMD2Vertices(n)
    \/ \E n \in {MAX_MD2_FRAMES - g_frame_used} : CallAllocFrames(n)
    \/ \E obj \in ObjTexts : Mesh_LoadOBJ(obj)
    \/ \E a \in Md2Files : Mesh_LoadMD2(a)
    \/ \E m \in EvalMeshes, v \in EvalVerts, fa \in EvalFrameIdx, t \in EvalLerps, j \in Junk :
            \E fb \in {fa, 0} : CallMesh_GetMD2Vertex(m, v, fa, fb, t, j)
    \/ \E m \in EvalMeshes, v \in EvalVerts, fa \in EvalFrameIdx, t \in EvalLerps, j \in Junk :
            \E fb \in {fa, 0} : CallMesh_GetMD2InterpolatedVertex(m, v, fa, fb, t, j)

\* the largest triangle count whose 3 * N still fits a uint16_t
WideTriangles == 65535 \div 3

\* MD2 files for the loaders run against the pools: the small one, one with
\* WideTriangles triangles, and one with WideTriangles triangles whose frames
\* hold more vertices than g_md2_vertex_pool has room for, and one with 198
\* frames of 500 vertices
WideMd2 == Md2File(2, 1, WideTriangles, 3)
OverfullMd2 == Md2File(2, MAX_MD2_FRAMES, WideTriangles, (MAX_MD2_VERTICES \div MAX_MD2_FRAMES) + 1)
ManyFramesMd2 == Md2File(2, MAX_MD2_FRAMES - 2, 2, 500)
PoolMd2Files == {SmallMd2, WideMd2, OverfullMd2, ManyFramesMd2}

\* the calls that create and free meshes, without the allocators
PoolNext ==
    \/ Mesh_Init
    \/ Mesh_CreateCube
    \/ Mesh_CreatePlane
    \/ \E obj \in {CubeObj, ObjText(4, 1, <<3>>)} : Mesh_LoadOBJ(obj)
    \/ \E a \in PoolMd2Files : Mesh_LoadMD2(a)
    \/ \E id \in FreeIds : Mesh_Free(id)

----------------------------------------------------------------------------
(* Claims about the mesh pools and the slot table *)

\* What C1 says of one allocator call: `used` is the pool's counter before the
\* call and `usedNext` after it; the count n is mesh_call'.arg.
AllocContract(name, used, usedNext) ==
    mesh_call'.op = name =>
        IF mesh_call'.ret # NO_SPACE
        THEN /\ mesh_call'.ret = used
             /\ mesh_call'.arg >= 0
             /\ usedNext = used + mesh_call'.arg
        ELSE usedNext = used

\* C1: every call of one of the five pool allocators, for every uint32 count
\* n, either succeeds, returning the pre-call value of the pool's used counter
\* and leaving used exactly n larger, or returns 0xFFFFFFFF and leaves used
\* unchanged.
C1_AllocContract ==
    [][/\ AllocContract("AllocVertices", g_vertex_used, g_vertex_used')
       /\ AllocContract("AllocIndices", g_index_used, g_index_used')
       /\ AllocContract("AllocFrames", g_frame_used, g_frame_used')
       /\ AllocContract("AllocMD2Vertices", g_md2_vertex_used, g_md2_vertex_used')
       /\ AllocContract("AllocMD2UVs", g_md2_uv_used, g_md2_uv_used')]_mesh_vars

\* What C2 says of one allocator call made when the pool is full
FullPoolFails(name, used, max) ==
    (used = max /\ mesh_call'.op = name) => mesh_call'.ret = NO_SPACE

\* C2: once a pool's used counter equals its capacity, every allocate(n) call
\* on that pool returns 0xFFFFFFFF, whatever n is (a failing call leaves the
\* pool full, so this is the claim for every later call up to Mesh_Init).
C2_FullPoolAlwaysFails ==
    [][/\ FullPoolFails("AllocVertices", g_vertex_used, MAX_TOTAL_VERTICES)
       /\ FullPoolFails("AllocIndices", g_index_used, MAX_TOTAL_INDICES)
       /\ FullPoolFails("AllocFrames", g_frame_used, MAX_MD2_FRAMES)
       /\ FullPoolFails("AllocMD2Vertices", g_md2_vertex_used, MAX_MD2_VERTICES)
       /\ FullPoolFails("AllocMD2UVs", g_md2_uv_used, MAX_MD2_VERTICES)]_mesh_vars

\* used <= capacity for the five pools, as unsigned comparisons
PoolsWithinCapacity ==
    /\ ~U32Gt(g_vertex_used, MAX_TOTAL_VERTICES)
    /\ ~U32Gt(g_index_used, MAX_TOTAL_INDICES)
    /\ ~U32Gt(g_frame_used, MAX_MD2_FRAMES)
    /\ ~U32Gt(g_md2_vertex_used, MAX_MD2_VERTICES)
    /\ ~U32Gt(g_md2_uv_used, MAX_MD2_VERTICES)

\* no pool's used counter is lower after the step than before it
PoolsAppendOnly ==
    /\ U32Ge(g_vertex_used', g_vertex_used)
    /\ U32Ge(g_index_used', g_index_used)
    /\ U32Ge(g_frame_used', g_frame_used)
    /\ U32Ge(g_md2_vertex_used', g_md2_vertex_used)
    /\ U32Ge(g_md2_uv_used', g_md2_uv_used)

\* C3: in every reachable state each pool has used <= capacity, and no
\* operation other than Mesh_Init lowers a pool's used counter.
C3_PoolsBoundedAppendOnly ==
    [][/\ PoolsWithinCapacity'
       /\ mesh_call'.op # "Mesh_Init" => PoolsAppendOnly]_mesh_vars

\* the slot type a creating call leaves behind
CreatedType(op) == IF op = "Mesh_LoadMD2" THEN 2 ELSE 1

Creators == {"Mesh_CreateCube", "Mesh_CreatePlane", "Mesh_LoadOBJ", "Mesh_LoadMD2"}

\* C4: every call of Mesh_CreateCube, Mesh_CreatePlane, Mesh_LoadOBJ or
\* Mesh_LoadMD2 returns 0xFFFFFFFF or a handle below MAX_MESHES whose slot was
\* free before the call and afterwards has the type of the call, so that
\* Mesh_Get of it is non-NULL; with no free slot the call returns 0xFFFFFFFF.
C4_HandleContract ==
    [][mesh_call'.op \in Creators =>
        LET h == mesh_call'.ret IN
        /\ \/ h = NO_SPACE
           \/ /\ h \in MeshIds
              /\ g_meshes[h].type = 0
              /\ g_meshes'[h].type = CreatedType(mesh_call'.op)
              /\ Mesh_Get(g_meshes', h)
        /\ (\A i \in MeshIds : g_meshes[i].type # 0) => h = NO_SPACE]_mesh_vars

\* C4 witness: Mesh_LoadMD2 has returned the second slot, now Animated, next
\* to a Static mesh in the first
C4_Witness ==
    /\ mesh_call.op = "Mesh_LoadMD2"
    /\ mesh_call.ret = 1
    /\ g_meshes[1].type = 2
    /\ g_meshes[0].type = 1
    /\ Mesh_Get(g_meshes, 1)

\* the slots Mesh_Free has marked Free since the last Mesh_Init: their
\* descriptors still record the pool ranges of the freed mesh
FreedStatic(meshes) == {i \in MeshIds : meshes[i].type = 0 /\ "stat" \in DOMAIN meshes[i]}

\* What C21 says of one Mesh_Free call
FreeOnlyMarks ==
    mesh_call'.op = "Mesh_Free" =>
        LET h == mesh_call'.arg IN
        /\ UNCHANGED pool_vars
        /\ UNCHANGED <<g_vertex_used, g_index_used, g_frame_used, g_md2_vertex_used,
                       g_md2_uv_used>>
        /\ IF h \in MeshIds
           THEN /\ g_meshes' = [g_meshes EXCEPT ![h].type = 0]
                /\ ~Mesh_Get(g_meshes', h)
           ELSE g_meshes' = g_meshes

\* the ranges of the freed static meshes lie below the used counters, so that
\* no allocator hands any part of them out (the pools hand out [used, ...))
FreedStayReserved(meshes, v_used, i_used) ==
    \A i \in FreedStatic(meshes) :
        /\ U32Ge(v_used, meshes[i].stat.vertex_start + meshes[i].stat.vertex_count)
        /\ U32Ge(i_used, meshes[i].stat.index_start + meshes[i].stat.index_count)

\* C21: Mesh_Free(h) with h < MAX_MESHES marks slot h Free, so that Mesh_Get(h)
\* is NULL, and changes no used counter, no pool and no other slot; with
\* h >= MAX_MESHES it changes nothing; the ranges of a freed mesh are not
\* handed out again before Mesh_Init.
C21_FreeOnlyMarks ==
    [][/\ FreeOnlyMarks
       /\ mesh_call'.op # "Mesh_Init" =>
            FreedStayReserved(g_meshes', g_vertex_used', g_index_used')]_mesh_vars

\* the part of C21 about the Mesh_Free call alone
C21_FreeCallOnly == [][FreeOnlyMarks]_mesh_vars

\* the ranges a slot's descriptor records, as <<pool, start, count>>
SlotRanges(slot) ==
    CASE slot.type = 1 ->
            {<<"vertex", slot.stat.vertex_start, slot.stat.vertex_count>>,
             <<"index", slot.stat.index_start, slot.stat.index_count>>}
      [] slot.type = 2 ->
            {<<"index", slot.anim.index_start, slot.anim.index_count>>,
             <<"frame", slot.anim.frame_start, slot.anim.frame_count>>,
             <<"uv", slot.anim.uv_start, slot.anim.uv_count>>}
      [] OTHER -> {}

PoolUsed(pool) ==
    CASE pool = "vertex" -> g_vertex_used
      [] pool = "index" -> g_index_used
      [] pool = "frame" -> g_frame_used
      [] OTHER -> g_md2_uv_used

\* two ranges of one pool share an element
Overlap(r, q) ==
    /\ r[1] = q[1]
    /\ r[3] > 0 /\ q[3] > 0
    /\ r[2] < q[2] + q[3]
    /\ q[2] < r[2] + r[3]

\* C25: in every state reached by Mesh_Init, Mesh_CreateCube, Mesh_CreatePlane,
\* Mesh_LoadOBJ, Mesh_LoadMD2 and Mesh_Free, the vertex, index, frame and UV
\* ranges recorded in the descriptors of two distinct non-Free slots are
\* disjoint within each pool, and every such range lies inside [0, used) of
\* its pool.
C25_RangesDisjointInUse ==
    /\ \A i \in MeshIds, j \in MeshIds :
            i # j => \A r \in SlotRanges(g_meshes[i]), q \in SlotRanges(g_meshes[j]) :
                        ~Overlap(r, q)
    /\ \A i \in MeshIds : \A r \in SlotRanges(g_meshes[i]) :
            U32Ge(PoolUsed(r[1]), r[2] + r[3])

\* The creating call of the step returned 0xFFFFFFFF for want of a slot or of
\* pool space: its input passed the tests made before anything is reserved.
CapacityFailure ==
    /\ mesh_call'.op \in Creators
    /\ mesh_call'.ret = NO_SPACE
    /\ mesh_call'.op = "Mesh_LoadOBJ" => load_call'.input.present
    /\ mesh_call'.op = "Mesh_LoadMD2" =>
        /\ load_call'.input.size >= MD2_HEADER_SIZE
        /\ load_call'.input.magic = MD2_MAGIC
        /\ load_call'.input.version = MD2_VERSION
        /\ load_call'.input.num_frames <= MAX_MD2_FRAMES

\* C27: when Mesh_CreateCube, Mesh_CreatePlane, Mesh_LoadOBJ or Mesh_LoadMD2
\* returns 0xFFFFFFFF because a slot or a pool reservation is unavailable, the
\* slot table and the five used counters are as before the call, also when an
\* earlier reservation of the same call had succeeded.
C27_FailedCallConsumesNothing ==
    [][CapacityFailure =>
        UNCHANGED <<g_meshes, g_vertex_used, g_index_used, g_frame_used,
                    g_md2_vertex_used, g_md2_uv_used>>]_mesh_vars

----------------------------------------------------------------------------
(* Claims about Mesh_LoadOBJ *)

\* a reference r of a face corner names a line the text has
ValidRef(r, lines) == (r >= 1 /\ r <= lines) \/ (r <= -1 /\ -r <= lines)

\* every face of the text has 3 or 4 corners, each a valid reference
FacesWellFormed(obj) ==
    /\ obj.present
    /\ \A k \in 1 .. Len(obj.faces) :
            /\ obj.faces[k] \in {3, 4}
            /\ \A c \in 0 .. (obj.faces[k] - 1) :
                    /\ ValidRef(CornerRef(obj, c), obj.n_pos)
                    /\ ValidRef(CornerRef(obj, c), obj.n_uv)
                    /\ ValidRef(CornerRef(obj, c), obj.n_norm)

\* the sum of the corner counts of the faces k .. Len(faces)
RECURSIVE CornerSum(_, _)
CornerSum(faces, k) == IF k > Len(faces) THEN 0 ELSE faces[k] + CornerSum(faces, k + 1)

\* the indices C17 states for the faces k .. Len(faces), b being the first
\* output vertex of face k: (b, b+1, b+2), and (b, b+2, b+3) for a quad
RECURSIVE FanIndices(_, _, _)
FanIndices(faces, k, b) ==
    IF k > Len(faces) THEN <<>>
    ELSE <<b, b + 1, b + 2>>
            \o (IF faces[k] = 4 THEN <<b, b + 2, b + 3>> ELSE <<>>)
            \o FanIndices(faces, k + 1, b + faces[k])

\* C17: for an OBJ text whose faces each have 3 or 4 valid corners, a
\* successful Mesh_LoadOBJ yields a Static slot whose vertex_count is the sum
\* of the corner counts and whose index_count is 3 per triangle plus 6 per
\* quad, the indices emitted being (b, b+1, b+2) and (b, b+2, b+3) per face;
\* the cube of 8 positions and 6 quads gives 24 vertices and 36 indices; and
\* the used counters of the vertex and index pools grow by those counts.
C17_ObjCounts ==
    [][(/\ mesh_call'.op = "Mesh_LoadOBJ"
        /\ mesh_call'.ret # NO_SPACE
        /\ FacesWellFormed(load_call'.input))
            => LET faces == load_call'.input.faces
                   idx == FanIndices(faces, 1, 0)
                   stat == g_meshes'[mesh_call'.ret].stat
               IN  /\ g_meshes'[mesh_call'.ret].type = 1
                   /\ stat.vertex_count = CornerSum(faces, 1)
                   /\ stat.index_count = Len(idx)
                   /\ \A j \in 1 .. Len(idx) :
                        IndexAt(g_index_pool', g_index_used + (j - 1)) = idx[j]
                   /\ g_vertex_used' = g_vertex_used + CornerSum(faces, 1)
                   /\ g_index_used' = g_index_used + Len(idx)
                   /\ load_call'.input = CubeObj
                        => stat.vertex_count = 24 /\ stat.index_count = 36]_mesh_vars

\* C17 witness: the cube text has been loaded into a Static slot of 24
\* vertices and 36 indices whose second face is indexed 4,5,6, 4,6,7
C17_Witness ==
    /\ load_call.op = "Mesh_LoadOBJ"
    /\ load_call.input = CubeObj
    /\ load_call.ret \in MeshIds
    /\ g_meshes[load_call.ret].type = 1
    /\ g_meshes[load_call.ret].stat.vertex_count = 24
    /\ g_meshes[load_call.ret].stat.index_count = 36
    /\ g_index_used = 36
    /\ IndexAt(g_index_pool, 9) = 4
    /\ IndexAt(g_index_pool, 10) = 6
    /\ IndexAt(g_index_pool, 11) = 7

\* C18: Mesh_LoadOBJ returns 0xFFFFFFFF for a text with more than 2048
\* position, texcoord or normal lines; it returns no mesh in which lines past
\* the capacity were dropped or replaced by default values.
C18_OverCapacityRejected ==
    (/\ load_call.op = "Mesh_LoadOBJ"
     /\ load_call.input.present
     /\ \/ load_call.input.n_pos > OBJ_MAX_POS
        \/ load_call.input.n_uv > OBJ_MAX_UV
        \/ load_call.input.n_norm > OBJ_MAX_NORM)
        => load_call.ret = NO_SPACE

----------------------------------------------------------------------------
(* Claims about Mesh_LoadMD2 *)

\* The last loader call was Mesh_LoadMD2, it succeeded, and its buffer holds
\* all that its header declares.
LoadedWellFormed ==
    /\ load_call.op = "Mesh_LoadMD2"
    /\ load_call.ret # NO_SPACE
    /\ load_call.input.num_triangles >= 0
    /\ load_call.input.num_vertices >= 0
    /\ DeclaredEnd(load_call.input) <= load_call.input.size

\* C14: a well-formed MD2 file with one frame and N triangles that
\* Mesh_LoadMD2 loads successfully gives an Animated slot with
\* uv_count = 3 * N and index_count = 3 * N.
C14_CountsAreThreeN ==
    (LoadedWellFormed /\ load_call.input.num_frames = 1)
        => /\ g_meshes[load_call.ret].anim.uv_count = 3 * load_call.input.num_triangles
           /\ g_meshes[load_call.ret].anim.index_count = 3 * load_call.input.num_triangles

\* the triangles of the loaded file that the claims look at: the first two
\* and the last
LoadedTriangles ==
    {i \in {0, 1, load_call.input.num_triangles - 1} :
        i >= 0 /\ i < load_call.input.num_triangles}

\* the texture coordinate the file gives corner c of its triangle i, as
\* Mesh_LoadMD2 scales it
SourceUV(a, i, c) ==
    [u |-> <<TexCoordS(a, TriTexcoord(a, i, c)), a.skin_width>>,
     v |-> <<TexCoordT(a, TriTexcoord(a, i, c)), a.skin_height>>]

\* C22: for every triangle i of a loaded MD2 mesh and every output corner k,
\* the UV pair at uv[3 * i + k] is the texture coordinate of the source corner
\* whose vertex index is at index[3 * i + k]: the winding flip of the indices
\* is applied to the per-corner UVs as well.
C22_UVsFollowWinding ==
    LoadedWellFormed =>
        LET a == load_call.input
            m == g_meshes[load_call.ret].anim
        IN  \A i \in LoadedTriangles : \A k \in 0 .. 2 :
                \E c \in 0 .. 2 :
                    /\ IndexAt(g_index_pool, m.index_start + 3 * i + k)
                            = U16(TriVertex(a, i, c))
                    /\ UVAt(g_md2_uv_pool, m.uv_start + 3 * i + k) = SourceUV(a, i, c)

\* the frames of the loaded file that the claims look at: the first two and
\* the last
LoadedFrames ==
    {f \in {0, 1, load_call.input.num_frames - 1} :
        f >= 0 /\ f < load_call.input.num_frames}

\* C26: after a successful Mesh_LoadMD2, for every frame f < num_frames the
\* frame descriptor's vertex_start is vert_start + f * num_vertices, vert_start
\* being the offset AllocMD2Vertices returned, so that the vertex runs of
\* different frames are disjoint and frame f's run holds the vertices copied
\* from source frame f.
C26_FrameVertexStart ==
    (LoadedWellFormed /\ mesh_call.op = "Mesh_LoadMD2") =>
        LET a == load_call.input
            m == g_meshes[load_call.ret].anim
            vert_start == g_md2_vertex_used - a.num_frames * a.num_vertices
            Desc(f) == FrameDescAt(g_frame_pool, m.frame_start + f)
        IN  /\ \A f \in LoadedFrames :
                /\ Desc(f).vertex_start = vert_start + f * a.num_vertices
                /\ \A v \in {0, a.num_vertices - 1} :
                        v >= 0 => Md2VertexAt(g_md2_vertex_pool, Desc(f).vertex_start + v)
                                    = FrameVert(a, f, v)
            /\ \A f \in LoadedFrames, g \in LoadedFrames :
                    (f < g /\ a.num_vertices > 0) =>
                        Desc(f).vertex_start + a.num_vertices <= Desc(g).vertex_start

\* the header tests C15 names: wrong magic, wrong version, or more frames than
\* the animation-frame pool has left
HeaderRejected(hdr, frame_used) ==
    \/ hdr.magic # MD2_MAGIC
    \/ hdr.version # MD2_VERSION
    \/ hdr.num_frames > MAX_MD2_FRAMES - frame_used

\* C15: Mesh_LoadMD2 returns 0xFFFFFFFF whenever the magic is not 844121161,
\* the version is not 8 or the frame count does not fit the animation-frame
\* pool, and then leaves the slot table and the five used counters unchanged.
C15_RejectLeavesNoTrace ==
    [][(/\ load_call'.op = "Mesh_LoadMD2"
        /\ mesh_call'.op = "Mesh_LoadMD2"
        /\ load_call'.input.size >= MD2_HEADER_SIZE
        /\ HeaderRejected(load_call'.input, g_frame_used))
            => /\ mesh_call'.ret = NO_SPACE
               /\ UNCHANGED <<g_meshes, g_vertex_used, g_index_used, g_frame_used,
                              g_md2_vertex_used, g_md2_uv_used>>]_mesh_vars

\* C16: Mesh_LoadMD2 on a buffer of `size` bytes whose header passes the
\* magic and version tests but whose declared offsets and counts extend past
\* `size` returns 0xFFFFFFFF and reads no byte at an offset >= size.
C16_TruncatedRejected ==
    (/\ load_call.op = "Mesh_LoadMD2"
     /\ load_call.input.size >= MD2_HEADER_SIZE
     /\ load_call.input.magic = MD2_MAGIC
     /\ load_call.input.version = MD2_VERSION
     /\ DeclaredEnd(load_call.input) > load_call.input.size)
        => /\ load_call.ret = NO_SPACE
           /\ load_call.read_end <= load_call.input.size

----------------------------------------------------------------------------
(* Claims about the MD2 evaluators *)

\* The last mesh call was an evaluator call on the Animated mesh that the last
\* loader call returned, loaded from a buffer that holds all that its header
\* declares.
EvalOfLoaded ==
    /\ md2_eval.op # "none"
    /\ load_call.op = "Mesh_LoadMD2"
    /\ load_call.ret # NO_SPACE
    /\ md2_eval.mesh_id = load_call.ret
    /\ g_meshes[md2_eval.mesh_id].type = 2
    /\ DeclaredEnd(load_call.input) <= load_call.input.size

\* the decompressed position of vertex v of frame f of the file a
FilePosition(a, f, v) ==
    Decompress([scale |-> FrameScale(a, f), translate |-> FrameTranslate(a, f)],
               FrameVert(a, f, v))

\* C11: for a loaded Animated mesh, a frame f < frame_count, a vertex
\* v < verts_per_frame and any factor t, both evaluators called with the frame
\* pair (f, f) return exactly byte * scale + translate of vertex v of frame f.
C11_IdenticalFramesExact ==
    (/\ EvalOfLoaded
     /\ md2_eval.frame_a = md2_eval.frame_b
     /\ md2_eval.frame_a < g_meshes[md2_eval.mesh_id].anim.frame_count
     /\ md2_eval.v < g_meshes[md2_eval.mesh_id].anim.verts_per_frame)
        => md2_eval.out.pos = FilePosition(load_call.input, md2_eval.frame_a, md2_eval.v)

\* the frame index an evaluator receives: Mesh_GetMD2InterpolatedVertex takes
\* its frame arguments as uint16_t
ArgFrame(op, f) == IF op = "Mesh_GetMD2InterpolatedVertex" THEN U16(f) ELSE f

\* the index C12 says is used in place of f
ClampedFrame(op, f, frame_count) ==
    IF U32Ge(ArgFrame(op, f), frame_count) THEN frame_count - 1 ELSE ArgFrame(op, f)

\* C12: for a loaded Animated mesh, a frame index >= frame_count passed to
\* either evaluator is clamped to frame_count - 1: the result is that of the
\* same call with the index replaced by frame_count - 1, and the frame
\* descriptors read lie in the mesh's own range
\* frame_start .. frame_start + frame_count - 1.
C12_FrameClamped ==
    LET e == md2_eval
        anim == g_meshes[e.mesh_id].anim
    IN  (/\ EvalOfLoaded
         /\ \/ U32Ge(ArgFrame(e.op, e.frame_a), anim.frame_count)
            \/ U32Ge(ArgFrame(e.op, e.frame_b), anim.frame_count))
            => /\ e.out = Evaluate(e.op, e.mesh_id, e.v,
                                   ClampedFrame(e.op, e.frame_a, anim.frame_count),
                                   ClampedFrame(e.op, e.frame_b, anim.frame_count),
                                   e.t, e.junk)
               /\ e.out.reads =>
                    /\ e.out.read_a \in anim.frame_start .. (anim.frame_start + anim.frame_count - 1)
                    /\ e.out.read_b \in anim.frame_start .. (anim.frame_start + anim.frame_count - 1)

\* C13: for a loaded Animated mesh, a vertex index >= verts_per_frame passed to
\* either evaluator is clamped to the last valid index: the result is that of
\* the same call with the vertex index replaced by verts_per_frame - 1.
C13_VertexClamped ==
    LET e == md2_eval
        anim == g_meshes[e.mesh_id].anim
    IN  (/\ EvalOfLoaded
         /\ U32Ge(e.v, anim.verts_per_frame))
            => LET last == Evaluate(e.op, e.mesh_id, anim.verts_per_frame - 1,
                                    e.frame_a, e.frame_b, e.t, e.junk)
               IN  /\ e.out.pos = last.pos
                   /\ e.out.norm = last.norm

----------------------------------------------------------------------------
(* Vectors and matrices (math3d.h) *)

\* Floats are modelled by integers.  Angles are counted in quarter turns, for
\* which cosf and sinf are taken as the exact values 0, 1 and -1.
Vec3_Zero == <<0, 0, 0>>
Vec3_One == <<1, 1, 1>>

Cos(q) == CASE q % 4 = 0 -> 1 [] q % 4 = 1 -> 0 [] q % 4 = 2 -> -1 [] OTHER -> 0
Sin(q) == CASE q % 4 = 0 -> 0 [] q % 4 = 1 -> 1 [] q % 4 = 2 -> 0 [] OTHER -> -1

\* A Mat4 is float m[16], column-major: m[k] is element k + 1 of the tuple.
Mat4_Identity == <<1, 0, 0, 0,  0, 1, 0, 0,  0, 0, 1, 0,  0, 0, 0, 1>>

\* r.m[col*4 + row] = sum over k of a.m[k*4 + row] * b.m[col*4 + k]
Mat4_Multiply(a, b) ==
    LET e(col, row) ==
              a[0 * 4 + row + 1] * b[col * 4 + 0 + 1]
            + a[1 * 4 + row + 1] * b[col * 4 + 1 + 1]
            + a[2 * 4 + row + 1] * b[col * 4 + 2 + 1]
            + a[3 * 4 + row + 1] * b[col * 4 + 3 + 1]
    IN  << e(0, 0), e(0, 1), e(0, 2), e(0, 3),
           e(1, 0), e(1, 1), e(1, 2), e(1, 3),
           e(2, 0), e(2, 1), e(2, 2), e(2, 3),
           e(3, 0), e(3, 1), e(3, 2), e(3, 3) >>

Mat4_Translation(x, y, z) ==
    [Mat4_Identity EXCEPT ![13] = x, ![14] = y, ![15] = z]

Mat4_Scale(x, y, z) ==
    [Mat4_Identity EXCEPT ![1] = x, ![6] = y, ![11] = z]

Mat4_RotationX(q) ==
    [Mat4_Identity EXCEPT ![6] = Cos(q), ![10] = -Sin(q), ![7] = Sin(q), ![11] = Cos(q)]

Mat4_RotationY(q) ==
    [Mat4_Identity EXCEPT ![1] = Cos(q), ![9] = Sin(q), ![3] = -Sin(q), ![11] = Cos(q)]

Mat4_RotationZ(q) ==
    [Mat4_Identity EXCEPT ![1] = Cos(q), ![5] = -Sin(q), ![2] = Sin(q), ![6] = Cos(q)]

\* static inline Vec4 Mat4_MultiplyVec4(const Mat4* m, Vec4 v)
Mat4_MultiplyVec4(m, v) ==
    << m[1] * v[1] + m[5] * v[2] + m[9] * v[3] + m[13] * v[4],
       m[2] * v[1] + m[6] * v[2] + m[10] * v[3] + m[14] * v[4],
       m[3] * v[1] + m[7] * v[2] + m[11] * v[3] + m[15] * v[4],
       m[4] * v[1] + m[8] * v[2] + m[12] * v[3] + m[16] * v[4] >>

\* a zero-initialised Mat4
Mat4_Zero == <<0, 0, 0, 0,  0, 0, 0, 0,  0, 0, 0, 0,  0, 0, 0, 0>>

\* the translation column m[12], m[13], m[14] of a matrix
Mat4_Origin(m) == <<m[13], m[14], m[15]>>

----------------------------------------------------------------------------
(* Entities and transforms (entity.cpp) *)

\* The entity table is scaled down (MAX_ENTITIES is 256 in the source); it
\* holds one entity more than Entity_UpdateTransforms makes sweeps.
MAX_ENTITIES == 9

\* for (int pass = 0; pass < 8; pass++)
MAX_PASSES == 8

INVALID_ENTITY == -1

COMP_TRANSFORM == 1
COMP_ANIMATOR == 32

EntitySlots == 0 .. (MAX_ENTITIES - 1)

\* The scan of FindIndex from slot i on
RECURSIVE FindFrom(_, _, _)
FindFrom(ents, id, i) ==
    IF i >= MAX_ENTITIES THEN -1
    ELSE IF ents[i].id = id THEN i
    ELSE FindFrom(ents, id, i + 1)

\* static int FindIndex(EntityID id): -1 when there is none
FindIndex(ents, id) ==
    IF id = INVALID_ENTITY THEN -1 ELSE FindFrom(ents, id, 0)

\* The tables after Entity_Init
InitEntities == [i \in EntitySlots |-> [id |-> INVALID_ENTITY, components |-> 0]]
InitTransforms ==
    [i \in EntitySlots |->
        [position |-> Vec3_Zero, rotation |-> Vec3_Zero, scale |-> Vec3_One,
         local_matrix |-> Mat4_Identity, world_matrix |-> Mat4_Identity,
         parent |-> INVALID_ENTITY, dirty |-> 0]]

InitAnimators ==
    [i \in EntitySlots |->
        [current_frame |-> 0, next_frame |-> 0, interpolation |-> <<0, 1>>,
         frame_time |-> 0, playback_speed |-> 0, start_frame |-> 0,
         end_frame |-> 0, is_playing |-> 0, is_looping |-> 0]]

\* A world of entities: the tables and g_next_id
EntityInit ==
    [ents |-> InitEntities, xf |-> InitTransforms, anim |-> InitAnimators,
     next_id |-> 1]

\* EntityID Entity_Create(const char* name): the first free slot, or nothing
\* changed when there is none; `ret` is the returned handle
Entity_Create(w) ==
    IF \E i \in EntitySlots : w.ents[i].id = INVALID_ENTITY
    THEN LET i == CHOOSE k \in EntitySlots :
                    /\ w.ents[k].id = INVALID_ENTITY
                    /\ \A j \in EntitySlots : j < k => w.ents[j].id # INVALID_ENTITY
         IN  [ents |-> [w.ents EXCEPT ![i] = [id |-> w.next_id,
                                              components |-> COMP_TRANSFORM]],
              xf |-> [w.xf EXCEPT ![i].position = Vec3_Zero,
                                  ![i].rotation = Vec3_Zero,
                                  ![i].scale = Vec3_One,
                                  ![i].parent = INVALID_ENTITY,
                                  ![i].dirty = 1],
              anim |-> [w.anim EXCEPT ![i].playback_speed = 1],
              next_id |-> U32Add(w.next_id, 1),
              ret |-> w.next_id]
    ELSE [ents |-> w.ents, xf |-> w.xf, anim |-> w.anim, next_id |-> w.next_id,
          ret |-> INVALID_ENTITY]

\* Entity_Destroy that leaves the transforms alone
Entity_Destroy_KeepChildren(w, id) ==
    LET idx == FindIndex(w.ents, id) IN
    IF idx >= 0
    THEN [w EXCEPT
            !.ents = [w.ents EXCEPT ![idx] = [id |-> INVALID_ENTITY, components |-> 0]]]
    ELSE w

\* void Entity_Destroy(EntityID id)
Entity_Destroy(w, id) ==
    LET idx == FindIndex(w.ents, id) IN
    IF idx >= 0
    THEN [w EXCEPT
            !.xf = [i \in EntitySlots |->
                        IF w.xf[i].parent = id
                        THEN [w.xf[i] EXCEPT !.parent = INVALID_ENTITY, !.dirty = 1]
                        ELSE w.xf[i]],
            !.ents = [w.ents EXCEPT ![idx] = [id |-> INVALID_ENTITY, components |-> 0]]]
    ELSE w

\* void Entity_SetParent(EntityID child, EntityID parent)
Entity_SetParent(w, child, parent) ==
    LET idx == FindIndex(w.ents, child) IN
    IF idx >= 0
    THEN [w EXCEPT !.xf[idx].parent = parent, !.xf[idx].dirty = 1]
    ELSE w

\* Transform_SetPosition that also marks the children of the entity dirty
Transform_SetPosition_DirtyChildren(w, id, p) ==
    LET idx == FindIndex(w.ents, id) IN
    IF idx >= 0
    THEN [w EXCEPT !.xf = [j \in EntitySlots |->
                            IF j = idx
                            THEN [w.xf[j] EXCEPT !.position = p, !.dirty = 1]
                            ELSE IF w.xf[j].parent = id
                            THEN [w.xf[j] EXCEPT !.dirty = 1]
                            ELSE w.xf[j]]]
    ELSE w

\* void Transform_SetPosition(EntityID id, Vec3 p)
Transform_SetPosition(w, id, p) ==
    LET idx == FindIndex(w.ents, id) IN
    IF idx >= 0
    THEN [w EXCEPT !.xf[idx].position = p, !.xf[idx].dirty = 1]
    ELSE w

\* void Transform_SetRotation(EntityID id, Vec3 r)
Transform_SetRotation(w, id, r) ==
    LET idx == FindIndex(w.ents, id) IN
    IF idx >= 0
    THEN [w EXCEPT !.xf[idx].rotation = r, !.xf[idx].dirty = 1]
    ELSE w

\* void Transform_SetScale(EntityID id, Vec3 s)
Transform_SetScale(w, id, s) ==
    LET idx == FindIndex(w.ents, id) IN
    IF idx >= 0
    THEN [w EXCEPT !.xf[idx].scale = s, !.xf[idx].dirty = 1]
    ELSE w

\* static void UpdateLocalMatrix(int idx): the new local_matrix of transform t
UpdateLocalMatrix(t) ==
    LET T == Mat4_Translation(t.position[1], t.position[2], t.position[3])
        Rx == Mat4_RotationX(t.rotation[1])
        Ry == Mat4_RotationY(t.rotation[2])
        Rz == Mat4_RotationZ(t.rotation[3])
        S == Mat4_Scale(t.scale[1], t.scale[2], t.scale[3])
        tmp1 == Mat4_Multiply(Ry, Rx)
        Rx2 == Mat4_Multiply(tmp1, Rz)
        tmp2 == Mat4_Multiply(T, Rx2)
    IN  Mat4_Multiply(tmp2, S)

\* ResolveOne without the test of the parent's dirty flag: a child is
\* resolved against whatever world matrix its live parent holds
ResolveOne_NoParentDirtyTest(ents, xf, i) ==
    LET t == xf[i]
        pidx == FindIndex(ents, t.parent)
    IN  IF t.parent = INVALID_ENTITY
        THEN [xf |-> [xf EXCEPT ![i].world_matrix = t.local_matrix, ![i].dirty = 0],
              stuck |-> FALSE]
        ELSE IF pidx >= 0
        THEN [xf |-> [xf EXCEPT
                        ![i].world_matrix =
                            Mat4_Multiply(xf[pidx].world_matrix, t.local_matrix),
                        ![i].dirty = 0],
              stuck |-> FALSE]
        ELSE [xf |-> xf, stuck |-> TRUE]

\* The body of the sweep for the dirty live entity in slot i: the transforms
\* and whether the entity stays dirty
ResolveOne(ents, xf, i) ==
    LET t == xf[i]
        pidx == FindIndex(ents, t.parent)
    IN  IF t.parent = INVALID_ENTITY
        THEN [xf |-> [xf EXCEPT ![i].world_matrix = t.local_matrix, ![i].dirty = 0],
              stuck |-> FALSE]
        ELSE IF pidx >= 0 /\ xf[pidx].dirty = 0
        THEN [xf |-> [xf EXCEPT
                        ![i].world_matrix =
                            Mat4_Multiply(xf[pidx].world_matrix, t.local_matrix),
                        ![i].dirty = 0],
              stuck |-> FALSE]
        ELSE [xf |-> xf, stuck |-> TRUE]

\* One sweep over the slots from i on: the transforms and any_dirty
RECURSIVE Sweep(_, _, _, _)
Sweep(ents, xf, i, any_dirty) ==
    IF i >= MAX_ENTITIES THEN [xf |-> xf, any_dirty |-> any_dirty]
    ELSE IF ents[i].id = INVALID_ENTITY \/ xf[i].dirty = 0
    THEN Sweep(ents, xf, i + 1, any_dirty)
    ELSE LET r == ResolveOne(ents, xf, i)
         IN  Sweep(ents, r.xf, i + 1, any_dirty \/ r.stuck)

\* The sweeps from number `pass` on: the transforms and the sweeps made.
\* AfterSweep is the end of the loop body: break if (!any_dirty), else go on.
RECURSIVE Propagate(_, _, _), AfterSweep(_, _, _)
AfterSweep(ents, s, pass) ==
    IF ~s.any_dirty
    THEN [xf |-> s.xf, passes |-> pass + 1]
    ELSE Propagate(ents, s.xf, pass + 1)

Propagate(ents, xf, pass) ==
    IF pass >= MAX_PASSES THEN [xf |-> xf, passes |-> pass]
    ELSE AfterSweep(ents, Sweep(ents, xf, 0, FALSE), pass)

\* The first loop of Entity_UpdateTransforms from slot i on: the local
\* matrices of the live dirty entities are recomputed
RECURSIVE UpdateLocals(_, _, _)
UpdateLocals(ents, xf, i) ==
    IF i >= MAX_ENTITIES THEN xf
    ELSE IF ents[i].id # INVALID_ENTITY /\ xf[i].dirty # 0
    THEN UpdateLocals(ents, [xf EXCEPT ![i].local_matrix = UpdateLocalMatrix(xf[i])],
                      i + 1)
    ELSE UpdateLocals(ents, xf, i + 1)

\* void Entity_UpdateTransforms(void): the transforms and the sweeps made
Entity_UpdateTransforms(ents, xf) == Propagate(ents, UpdateLocals(ents, xf, 0), 0)

----------------------------------------------------------------------------
(* Components and animators (entity.cpp) *)

\* Time is counted in milliseconds: frame_duration = 1.0f / 10.0f seconds.
\* playback_speed is a whole factor, and the interpolation fraction is kept
\* as the pair <<numerator, denominator>>.
FRAME_DURATION == 100

HasAnimator(ents, i) == (ents[i].components \div COMP_ANIMATOR) % 2 = 1

\* void Entity_AddComponent(EntityID id, ComponentMask c), c = COMP_ANIMATOR
Entity_AddComponent(w, id) ==
    LET idx == FindIndex(w.ents, id) IN
    IF idx >= 0 /\ ~HasAnimator(w.ents, idx)
    THEN [w EXCEPT !.ents[idx].components = @ + COMP_ANIMATOR]
    ELSE w

\* void Entity_RemoveComponent(EntityID id, ComponentMask c), c = COMP_ANIMATOR
Entity_RemoveComponent(w, id) ==
    LET idx == FindIndex(w.ents, id) IN
    IF idx >= 0 /\ HasAnimator(w.ents, idx)
    THEN [w EXCEPT !.ents[idx].components = @ - COMP_ANIMATOR]
    ELSE w

\* The writes a caller makes through Entity_GetAnimator(id) to start a clip:
\* the frame range, the frame pair at its start, and the playback flags
StartClip(w, id, start, end, looping, speed) ==
    LET idx == FindIndex(w.ents, id) IN
    IF idx >= 0
    THEN [w EXCEPT !.anim[idx] =
            [@ EXCEPT !.start_frame = start,
                      !.end_frame = end,
                      !.current_frame = start,
                      !.next_frame = U32Add(start, 1),
                      !.is_playing = 1,
                      !.is_looping = looping,
                      !.playback_speed = speed]]
    ELSE w

\* The frame pair of Entity_UpdateAnimators after the period was reached
\* and current_frame = next_frame, next_frame++ were done
WrapFrames(a) ==
    IF U32Gt(a.next_frame, a.end_frame)
    THEN IF a.is_looping # 0
         THEN [a EXCEPT !.next_frame = a.start_frame]
         ELSE [a EXCEPT !.next_frame = a.end_frame, !.is_playing = 0]
    ELSE a

\* AdvanceFrame without the test of next_frame against end_frame
AdvanceFrame_NoWrap(a) ==
    IF a.frame_time >= FRAME_DURATION
    THEN [a EXCEPT !.frame_time = a.frame_time - FRAME_DURATION,
                   !.current_frame = a.next_frame,
                   !.next_frame = U32Add(a.next_frame, 1)]
    ELSE a

\* if (anim->frame_time >= frame_duration) { ... }
AdvanceFrame(a) ==
    IF a.frame_time >= FRAME_DURATION
    THEN WrapFrames([a EXCEPT !.frame_time = a.frame_time - FRAME_DURATION,
                              !.current_frame = a.next_frame,
                              !.next_frame = U32Add(a.next_frame, 1)])
    ELSE a

\* anim->frame_time += dt * anim->playback_speed
Accumulate(a, dt) == [a EXCEPT !.frame_time = a.frame_time + dt * a.playback_speed]

\* anim->interpolation = anim->frame_time / frame_duration
Interpolate(a) == [a EXCEPT !.interpolation = <<a.frame_time, FRAME_DURATION>>]

\* The body of the loop of Entity_UpdateAnimators for a playing animator
TickAnimator(a, dt) == Interpolate(AdvanceFrame(Accumulate(a, dt)))

\* The entities Entity_UpdateAnimators does not skip
Ticked(ents, anim) ==
    {i \in EntitySlots :
        /\ ents[i].id # INVALID_ENTITY
        /\ HasAnimator(ents, i)
        /\ anim[i].is_playing # 0}

\* void Entity_UpdateAnimators(float dt): the animator table
Entity_UpdateAnimators(ents, anim, dt) ==
    [i \in EntitySlots |->
        IF i \in Ticked(ents, anim) THEN TickAnimator(anim[i], dt) ELSE anim[i]]

----------------------------------------------------------------------------
(* The transform hierarchy as a state machine *)

\* Entities a scene is built from, besides the two long chains
SceneSize == 3

\* Entity calls made after the scene is built
MaxXformOps == 2

\* A handle Entity_Create has not issued and will not issue within the budget
DanglingId == MAX_ENTITIES + MaxXformOps + 1

Vec3_Add(a, b) == <<a[1] + b[1], a[2] + b[2], a[3] + b[3]>>
Vec3_Sub(a, b) == <<a[1] - b[1], a[2] - b[2], a[3] - b[3]>>

\* The tables after n calls of Entity_Create (handles 1 .. n in slots
\* 0 .. n - 1) followed, for each entity i, by Entity_SetParent(i, par[i]) and
\* Transform_SetPosition(i, (i, 0, 0)); a turned scene also gives each entity
\* a quarter turn about z and a scale of (2, 1, 1).  Nothing has been
\* resolved yet: every entity is dirty and every matrix is the identity.
Scene(n, par, turned) ==
    [ents |-> [i \in EntitySlots |->
                IF i < n THEN [id |-> i + 1, components |-> COMP_TRANSFORM]
                ELSE EntityInit.ents[i]],
     xf |-> [i \in EntitySlots |->
                IF i < n
                THEN [position |-> <<i + 1, 0, 0>>,
                      rotation |-> IF turned THEN <<0, 0, 1>> ELSE Vec3_Zero,
                      scale |-> IF turned THEN <<2, 1, 1>> ELSE Vec3_One,
                      local_matrix |-> Mat4_Identity,
                      world_matrix |-> Mat4_Identity,
                      parent |-> par[i + 1],
                      dirty |-> 1]
                ELSE EntityInit.xf[i]],
     anim |-> [i \in EntitySlots |->
                IF i < n THEN [EntityInit.anim[i] EXCEPT !.playback_speed = 1]
                ELSE EntityInit.anim[i]],
     next_id |-> n + 1]

\* Every parent graph over SceneSize entities: roots, trees, self-parents,
\* cycles and parents that name no live entity
SmallGraphs == [1 .. SceneSize -> (1 .. SceneSize) \cup {INVALID_ENTITY, DanglingId}]

\* A chain of n entities whose children sit in higher slots than their
\* parents, and one whose children sit in lower slots
ChainUp(n) == [i \in 1 .. n |-> IF i = 1 THEN INVALID_ENTITY ELSE i - 1]
ChainDown(n) == [i \in 1 .. n |-> IF i = n THEN INVALID_ENTITY ELSE i + 1]

Scenes ==
    { Scene(SceneSize, par, FALSE) : par \in SmallGraphs }
    \cup { Scene(n, ChainUp(n), turned) :
                n \in {MAX_PASSES, MAX_ENTITIES}, turned \in BOOLEAN }
    \cup { Scene(n, ChainDown(n), turned) :
                n \in {MAX_PASSES, MAX_ENTITIES}, turned \in BOOLEAN }

\* A scene after its first Entity_UpdateTransforms
Resolved(w) == [w EXCEPT !.xf = Entity_UpdateTransforms(w.ents, w.xf).xf]

LiveSlots(ents) == {i \in EntitySlots : ents[i].id # INVALID_ENTITY}
DirtySlots(ents, xf) == {i \in LiveSlots(ents) : xf[i].dirty # 0}

NoXformCall ==
    [op |-> "none", id |-> INVALID_ENTITY, delta |-> Vec3_Zero, dirty_before |-> {},
     orphaned |-> {}]

\* The slots of the live entities that lost their parent to an Entity_Destroy
\* and were not given a new one, since the last Entity_UpdateTransforms but
\* one: what the call op(id, ...) that takes the tables to w makes of them.
Orphaned(op, id, w) ==
    LET before == IF xf_call.op = "Entity_UpdateTransforms" THEN {} ELSE xf_call.orphaned
        idx == FindIndex(g_entities, id)
        now == CASE op = "Entity_Destroy" /\ idx >= 0 ->
                        before \cup {i \in EntitySlots : g_transforms[i].parent = id}
                 [] op = "Entity_SetParent" /\ idx >= 0 -> before \ {idx}
                 [] OTHER -> before
    IN  {i \in now : w.ents[i].id # INVALID_ENTITY}

XformInit ==
    /\ \E w \in Scenes \cup {Resolved(sc) : sc \in Scenes} :
        /\ g_entities = w.ents
        /\ g_transforms = w.xf
        /\ g_animators = w.anim
        /\ g_next_id = w.next_id
    /\ xf_call = NoXformCall
    /\ xf_passes = 0
    /\ xf_ops = 0

World ==
    [ents |-> g_entities, xf |-> g_transforms, anim |-> g_animators,
     next_id |-> g_next_id]

\* The call op(id, ...) took the tables to w
XformCalled(op, id, delta, w) ==
    /\ g_entities' = w.ents
    /\ g_transforms' = w.xf
    /\ g_animators' = w.anim
    /\ g_next_id' = w.next_id
    /\ xf_call' = [op |-> op, id |-> id, delta |-> delta,
                   dirty_before |-> DirtySlots(g_entities, g_transforms),
                   orphaned |-> Orphaned(op, id, w)]
    /\ xf_ops' = xf_ops + 1
    /\ UNCHANGED <<mesh_vars, anim_vars, rast_vars, fb_vars>>

\* Handles the calls are made with
CallIds == 1 .. SceneSize
NewPositions == {<<5, 0, 0>>}
NewRotations == {<<0, 0, 1>>}
NewScales == {<<2, 2, 2>>}

CallEntity_Create ==
    LET c == Entity_Create(World)
    IN  /\ xf_ops < MaxXformOps
        /\ XformCalled("Entity_Create", c.ret, Vec3_Zero, c)
        /\ UNCHANGED xf_passes

CallEntity_Destroy(id) ==
    /\ xf_ops < MaxXformOps
    /\ XformCalled("Entity_Destroy", id, Vec3_Zero, Entity_Destroy(World, id))
    /\ UNCHANGED xf_passes

CallEntity_SetParent(child, parent) ==
    /\ xf_ops < MaxXformOps
    /\ XformCalled("Entity_SetParent", child, Vec3_Zero,
                   Entity_SetParent(World, child, parent))
    /\ UNCHANGED xf_passes

CallTransform_SetPosition(id, p) ==
    LET idx == FindIndex(g_entities, id)
        old == IF idx >= 0 THEN g_transforms[idx].position ELSE p
    IN  /\ xf_ops < MaxXformOps
        /\ XformCalled("Transform_SetPosition", id, Vec3_Sub(p, old),
                       Transform_SetPosition(World, id, p))
        /\ UNCHANGED xf_passes

CallTransform_SetRotation(id, r) ==
    /\ xf_ops < MaxXformOps
    /\ XformCalled("Transform_SetRotation", id, Vec3_Zero,
                   Transform_SetRotation(World, id, r))
    /\ UNCHANGED xf_passes

CallTransform_SetScale(id, sc) ==
    /\ xf_ops < MaxXformOps
    /\ XformCalled("Transform_SetScale", id, Vec3_Zero,
                   Transform_SetScale(World, id, sc))
    /\ UNCHANGED xf_passes

CallEntity_UpdateTransforms ==
    /\ xf_ops < MaxXformOps
    /\ \E r \in {Entity_UpdateTransforms(g_entities, g_transforms)} :
        /\ XformCalled("Entity_UpdateTransforms", INVALID_ENTITY, Vec3_Zero,
                       [World EXCEPT !.xf = r.xf])
        /\ xf_passes' = r.passes

XformNext ==
    \/ CallEntity_Create
    \/ \E id \in CallIds : CallEntity_Destroy(id)
    \/ \E child \in CallIds :
            \E parent \in CallIds \cup {INVALID_ENTITY, DanglingId} :
                CallEntity_SetParent(child, parent)
    \/ \E id \in CallIds : \E p \in NewPositions : CallTransform_SetPosition(id, p)
    \/ \E id \in CallIds : \E r \in NewRotations : CallTransform_SetRotation(id, r)
    \/ \E id \in CallIds : \E sc \in NewScales : CallTransform_SetScale(id, sc)
    \/ CallEntity_UpdateTransforms

\* Parent graphs whose parents are all live, and the scenes built on them
LiveGraphs == [1 .. SceneSize -> (1 .. SceneSize) \cup {INVALID_ENTITY}]
LiveScenes == { Scene(SceneSize, par, FALSE) : par \in LiveGraphs }

ParentInit ==
    /\ \E w \in LiveScenes \cup {Resolved(sc) : sc \in LiveScenes} :
        /\ g_entities = w.ents
        /\ g_transforms = w.xf
        /\ g_animators = w.anim
        /\ g_next_id = w.next_id
    /\ xf_call = NoXformCall
    /\ xf_passes = 0
    /\ xf_ops = 0

\* Entity_Create, Entity_Destroy, Entity_SetParent to a live parent and
\* Entity_UpdateTransforms
ParentNext ==
    \/ CallEntity_Create
    \/ \E id \in CallIds : CallEntity_Destroy(id)
    \/ \E child \in CallIds, parent \in CallIds :
            FindIndex(g_entities, parent) >= 0 /\ CallEntity_SetParent(child, parent)
    \/ CallEntity_UpdateTransforms

----------------------------------------------------------------------------
(* The animators as a state machine *)

\* Entities the animator calls are made with
AnimEntities == 2

\* Animator calls made after the entities are created
MaxAnimOps == 4

AnimIds == 1 .. AnimEntities

\* Frame ranges a clip is started with: three frames, a single frame, and
\* the two highest frame numbers a uint32_t holds
Clips == {<<0, 2>>, <<1, 1>>, <<-2, -1>>}
Speeds == {1, 2}

\* Milliseconds a tick is made with
Dts == {0, 30, 100, 250}

NoAnimCall == [op |-> "none", id |-> INVALID_ENTITY, dt |-> 0, ticked |-> {}]

\* n calls of Entity_Create
RECURSIVE CreateN(_, _)
CreateN(w, n) == IF n = 0 THEN w ELSE CreateN(Entity_Create(w), n - 1)

\* AnimEntities calls of Entity_Create on the tables of Entity_Init
AnimInit ==
    /\ \E w \in {CreateN(EntityInit, AnimEntities)} :
        /\ g_entities = w.ents
        /\ g_transforms = w.xf
        /\ g_animators = w.anim
        /\ g_next_id = w.next_id
    /\ anim_call = NoAnimCall
    /\ anim_ops = 0

\* The call op(id, ...) took the tables to w
AnimCalled(op, id, dt, w) ==
    /\ g_entities' = w.ents
    /\ g_animators' = w.anim
    /\ anim_call' = [op |-> op, id |-> id, dt |-> dt,
                     ticked |-> IF op = "Entity_UpdateAnimators"
                                THEN Ticked(g_entities, g_animators) ELSE {}]
    /\ anim_ops' = anim_ops + 1
    /\ UNCHANGED <<g_transforms, g_next_id, xf_call, xf_passes, xf_ops, mesh_vars, rast_vars, fb_vars>>

CallEntity_AddComponent(id) ==
    /\ anim_ops < MaxAnimOps
    /\ AnimCalled("Entity_AddComponent", id, 0, Entity_AddComponent(World, id))

CallEntity_RemoveComponent(id) ==
    /\ anim_ops < MaxAnimOps
    /\ AnimCalled("Entity_RemoveComponent", id, 0, Entity_RemoveComponent(World, id))

CallStartClip(id, clip, looping, speed) ==
    /\ anim_ops < MaxAnimOps
    /\ AnimCalled("StartClip", id, 0,
                  StartClip(World, id, clip[1], clip[2], looping, speed))

CallEntity_UpdateAnimators(dt) ==
    /\ anim_ops < MaxAnimOps
    /\ AnimCalled("Entity_UpdateAnimators", INVALID_ENTITY, dt,
                  [World EXCEPT
                    !.anim = Entity_UpdateAnimators(g_entities, g_animators, dt)])

AnimNext ==
    \/ \E id \in AnimIds : CallEntity_AddComponent(id)
    \/ \E id \in AnimIds : CallEntity_RemoveComponent(id)
    \/ \E id \in AnimIds : \E clip \in Clips : \E looping \in {0, 1} :
            \E speed \in Speeds : CallStartClip(id, clip, looping, speed)
    \/ \E dt \in Dts : CallEntity_UpdateAnimators(dt)

\* Ticks of the main loop, in milliseconds
TickDts == Dts \ {0}

\* frame_time values a clip is picked up at
TickTimes == {0, 50}

\* Entity 1 with the Animator component and a playing animator somewhere in
\* its clip: start_frame <= current_frame, next_frame <= end_frame
TickInit ==
    /\ \E clip \in Clips : \E cur \in clip[1] .. clip[2] : \E nxt \in clip[1] .. clip[2] :
       \E looping \in {0, 1} : \E speed \in Speeds : \E ft \in TickTimes :
       \E w \in {Entity_AddComponent(CreateN(EntityInit, AnimEntities), 1)} :
        /\ g_entities = w.ents
        /\ g_transforms = w.xf
        /\ g_animators = [w.anim EXCEPT ![FindIndex(w.ents, 1)] =
                [@ EXCEPT !.start_frame = clip[1], !.end_frame = clip[2],
                          !.current_frame = cur, !.next_frame = nxt,
                          !.frame_time = ft, !.is_playing = 1,
                          !.is_looping = looping, !.playback_speed = speed]]
        /\ g_next_id = w.next_id
    /\ anim_call = NoAnimCall
    /\ anim_ops = 0

\* start_frame <= f <= end_frame, as uint32_t values
InClip(a, f) == U32Ge(f, a.start_frame) /\ U32Ge(a.end_frame, f)

\* One pass of the main loop: Entity_UpdateAnimators(dt).  The calls are not
\* counted; a tick longer than a frame period is taken only while less than
\* a period is left over, which keeps frame_time below a bound, and a run is
\* followed no further than the first frame index outside the clip.
MainLoopTick(dt) ==
    /\ \A i \in Ticked(g_entities, g_animators) :
            /\ \/ g_animators[i].frame_time < FRAME_DURATION
               \/ dt * g_animators[i].playback_speed <= FRAME_DURATION
            /\ InClip(g_animators[i], g_animators[i].next_frame)
    /\ g_animators' = Entity_UpdateAnimators(g_entities, g_animators, dt)
    /\ anim_call' = [op |-> "Entity_UpdateAnimators", id |-> INVALID_ENTITY, dt |-> dt,
                     ticked |-> Ticked(g_entities, g_animators)]
    /\ UNCHANGED <<g_entities, g_transforms, g_next_id, anim_ops, xf_call, xf_passes,
                   xf_ops, mesh_vars, rast_vars, fb_vars>>

TickNext == \E dt \in TickDts : MainLoopTick(dt)

\* The animator calls together with Entity_Destroy and Entity_Create, which
\* takes the first free slot again
ReuseNext ==
    \/ \E id \in AnimIds : CallEntity_AddComponent(id)
    \/ \E id \in AnimIds : \E clip \in Clips : \E looping \in {0, 1} :
            \E speed \in Speeds : CallStartClip(id, clip, looping, speed)
    \/ \E dt \in Dts : CallEntity_UpdateAnimators(dt)
    \/ \E id \in AnimIds : CallEntity_Destroy(id)
    \/ CallEntity_Create

----------------------------------------------------------------------------
(* Rasterizer (rasterizer.cpp, SDL_PC build) *)

\* the render target's size (Device::Width and Device::Height)
DISPLAY_WIDTH == 4
DISPLAY_HEIGHT == 3

\* the number of rasterizer and render calls in a run
MaxRastOps == 3

ZeroStats ==
    [triangles_submitted |-> 0, triangles_culled |-> 0,
     triangles_drawn |-> 0, pixels_drawn |-> 0]

NoRastCall == [op |-> "none", tri |-> <<>>, put |-> {}, submitted |-> <<>>]

\* static state before Rasterizer_Init: no device, zeroed statistics
RastInitState ==
    /\ g_device = FALSE
    /\ g_stats = ZeroStats
    /\ g_pixels = {}
    /\ g_view_matrix = Mat4_Zero
    /\ g_proj_matrix = Mat4_Zero
    /\ rast_call = NoRastCall
    /\ rast_ops = 0

\* static inline int32_t EdgeFunction(v0x, v0y, v1x, v1y, px, py)
EdgeFunction(v0x, v0y, v1x, v1y, px, py) ==
    (v1x - v0x) * (py - v0y) - (v1y - v0y) * (px - v0x)

Clampi(v, lo, hi) == IF v < lo THEN lo ELSE IF v > hi THEN hi ELSE v
Min3i(a, b, c) == Min(a, Min(b, c))
Max3i(a, b, c) == Max(a, Max(b, c))

\* The inner loop of Rasterizer_DrawTriangle from column x on: w holds the
\* three edge values w0, w1, w2 at (x, y) and a the steps A12, A20, A01 added
\* after every pixel; the result is the pixels of the row given to PutPixel.
RECURSIVE StepPixels(_, _, _, _, _)
StepPixels(x, maxX, y, w, a) ==
    IF x > maxX THEN {}
    ELSE (IF w[1] >= 0 /\ w[2] >= 0 /\ w[3] >= 0 THEN {<<x, y>>} ELSE {})
            \cup StepPixels(x + 1, maxX, y,
                            <<w[1] + a[1], w[2] + a[2], w[3] + a[3]>>, a)

\* The outer loop from row y on: w_row holds w0_row, w1_row, w2_row and b the
\* steps B12, B20, B01 added after every row.
RECURSIVE StepRows(_, _, _, _, _, _, _)
StepRows(y, maxY, minX, maxX, w_row, a, b) ==
    IF y > maxY THEN {}
    ELSE StepPixels(minX, maxX, y, w_row, a)
            \cup StepRows(y + 1, maxY, minX, maxX,
                          <<w_row[1] + b[1], w_row[2] + b[2], w_row[3] + b[3]>>, a, b)

\* The textured loop with the column step of w0 taken as y2 - y1
SteppedCover_ReversedStep(v0, v1, v2, minX, maxX, minY, maxY) ==
    StepRows(minY, maxY, minX, maxX,
             <<EdgeFunction(v1.x, v1.y, v2.x, v2.y, minX, minY),
               EdgeFunction(v2.x, v2.y, v0.x, v0.y, minX, minY),
               EdgeFunction(v0.x, v0.y, v1.x, v1.y, minX, minY)>>,
             <<v2.y - v1.y, v2.y - v0.y, v0.y - v1.y>>,
             <<v2.x - v1.x, v0.x - v2.x, v1.x - v0.x>>)

\* The pixels Rasterizer_DrawTriangle covers: the edge values are computed at
\* (minX, minY) and stepped by A12, A20, A01 per pixel and B12, B20, B01 per
\* row.
SteppedCover(v0, v1, v2, minX, maxX, minY, maxY) ==
    StepRows(minY, maxY, minX, maxX,
             <<EdgeFunction(v1.x, v1.y, v2.x, v2.y, minX, minY),
               EdgeFunction(v2.x, v2.y, v0.x, v0.y, minX, minY),
               EdgeFunction(v0.x, v0.y, v1.x, v1.y, minX, minY)>>,
             <<v1.y - v2.y, v2.y - v0.y, v0.y - v1.y>>,
             <<v2.x - v1.x, v0.x - v2.x, v1.x - v0.x>>)

\* The rasterizer culling triangles of negative area only
Rasterize_CullNegativeOnly(stats, v0, v1, v2) ==
    LET submitted == [stats EXCEPT !.triangles_submitted = @ + 1]
        area == EdgeFunction(v0.x, v0.y, v1.x, v1.y, v2.x, v2.y)
        minX == Clampi(Min3i(v0.x, v1.x, v2.x), 0, DISPLAY_WIDTH - 1)
        maxX == Clampi(Max3i(v0.x, v1.x, v2.x), 0, DISPLAY_WIDTH - 1)
        minY == Clampi(Min3i(v0.y, v1.y, v2.y), 0, DISPLAY_HEIGHT - 1)
        maxY == Clampi(Max3i(v0.y, v1.y, v2.y), 0, DISPLAY_HEIGHT - 1)
        covered == SteppedCover(v0, v1, v2, minX, maxX, minY, maxY)
    IN  IF area < 0 \/ minX > maxX \/ minY > maxY
        THEN [stats |-> [submitted EXCEPT !.triangles_culled = @ + 1], put |-> {}]
        ELSE [stats |-> [submitted EXCEPT
                            !.pixels_drawn = @ + Cardinality(covered),
                            !.triangles_drawn = @ + 1],
              put |-> covered]

\* What Rasterizer_DrawTriangle does with one triangle to the statistics and
\* which pixels it gives to Device::PutPixel, once g_device is known to be
\* set.
Rasterize(stats, v0, v1, v2) ==
    LET submitted == [stats EXCEPT !.triangles_submitted = @ + 1]
        area == EdgeFunction(v0.x, v0.y, v1.x, v1.y, v2.x, v2.y)
        minX == Clampi(Min3i(v0.x, v1.x, v2.x), 0, DISPLAY_WIDTH - 1)
        maxX == Clampi(Max3i(v0.x, v1.x, v2.x), 0, DISPLAY_WIDTH - 1)
        minY == Clampi(Min3i(v0.y, v1.y, v2.y), 0, DISPLAY_HEIGHT - 1)
        maxY == Clampi(Max3i(v0.y, v1.y, v2.y), 0, DISPLAY_HEIGHT - 1)
        covered == SteppedCover(v0, v1, v2, minX, maxX, minY, maxY)
    IN  IF area <= 0 \/ minX > maxX \/ minY > maxY
        THEN [stats |-> [submitted EXCEPT !.triangles_culled = @ + 1], put |-> {}]
        ELSE [stats |-> [submitted EXCEPT
                            !.pixels_drawn = @ + Cardinality(covered),
                            !.triangles_drawn = @ + 1],
              put |-> covered]

\* The same for Rasterizer_DrawTriangleSolid, which evaluates the three
\* edge functions anew at every pixel of the bounding box.
RasterizeSolid(stats, v0, v1, v2) ==
    LET submitted == [stats EXCEPT !.triangles_submitted = @ + 1]
        area == EdgeFunction(v0.x, v0.y, v1.x, v1.y, v2.x, v2.y)
        minX == Clampi(Min3i(v0.x, v1.x, v2.x), 0, DISPLAY_WIDTH - 1)
        maxX == Clampi(Max3i(v0.x, v1.x, v2.x), 0, DISPLAY_WIDTH - 1)
        minY == Clampi(Min3i(v0.y, v1.y, v2.y), 0, DISPLAY_HEIGHT - 1)
        maxY == Clampi(Max3i(v0.y, v1.y, v2.y), 0, DISPLAY_HEIGHT - 1)
        covered == {p \in (minX .. maxX) \X (minY .. maxY) :
                        /\ EdgeFunction(v1.x, v1.y, v2.x, v2.y, p[1], p[2]) >= 0
                        /\ EdgeFunction(v2.x, v2.y, v0.x, v0.y, p[1], p[2]) >= 0
                        /\ EdgeFunction(v0.x, v0.y, v1.x, v1.y, p[1], p[2]) >= 0}
    IN  IF area <= 0 \/ minX > maxX \/ minY > maxY
        THEN [stats |-> [submitted EXCEPT !.triangles_culled = @ + 1], put |-> {}]
        ELSE [stats |-> [submitted EXCEPT
                            !.pixels_drawn = @ + Cardinality(covered),
                            !.triangles_drawn = @ + 1],
              put |-> covered]

\* a rasterizer call that is not a draw call
RastCalled(op) ==
    /\ rast_call' = [NoRastCall EXCEPT !.op = op]
    /\ rast_ops' = rast_ops + 1
    /\ UNCHANGED <<mesh_vars, xf_vars, anim_vars, fb_vars>>

\* void Rasterizer_Init(void)
Rasterizer_Init ==
    /\ rast_ops < MaxRastOps
    /\ g_device' = FALSE
    /\ g_stats' = ZeroStats
    /\ UNCHANGED <<g_pixels, camera_vars>>
    /\ RastCalled("Rasterizer_Init")

\* void Rasterizer_SetDevice(Device* device)
Rasterizer_SetDevice(device) ==
    /\ rast_ops < MaxRastOps
    /\ g_device' = device
    /\ UNCHANGED <<g_stats, g_pixels, camera_vars>>
    /\ RastCalled("Rasterizer_SetDevice")

\* void Rasterizer_ResetStats(void)
Rasterizer_ResetStats ==
    /\ rast_ops < MaxRastOps
    /\ g_stats' = ZeroStats
    /\ UNCHANGED <<g_device, g_pixels, camera_vars>>
    /\ RastCalled("Rasterizer_ResetStats")

\* Rasterizer_DrawTriangle and Rasterizer_DrawTriangleSolid: nothing without a
\* device
DrawCalled(op, v0, v1, v2) ==
    /\ rast_ops < MaxRastOps
    /\ \E r \in {IF ~g_device THEN [stats |-> g_stats, put |-> {}]
                 ELSE IF op = "Rasterizer_DrawTriangle"
                      THEN Rasterize(g_stats, v0, v1, v2)
                      ELSE RasterizeSolid(g_stats, v0, v1, v2)} :
        /\ g_stats' = r.stats
        /\ g_pixels' = g_pixels \cup r.put
        /\ rast_call' = [NoRastCall EXCEPT !.op = op, !.tri = <<v0, v1, v2>>,
                                           !.put = r.put]
    /\ rast_ops' = rast_ops + 1
    /\ UNCHANGED <<g_device, camera_vars>>
    /\ UNCHANGED <<mesh_vars, xf_vars, anim_vars, fb_vars>>

\* void Rasterizer_DrawTriangle(v0, v1, v2, texture)
Rasterizer_DrawTriangle(v0, v1, v2) == DrawCalled("Rasterizer_DrawTriangle", v0, v1, v2)

\* void Rasterizer_DrawTriangleSolid(v0, v1, v2, color)
Rasterizer_DrawTriangleSolid(v0, v1, v2) ==
    DrawCalled("Rasterizer_DrawTriangleSolid", v0, v1, v2)

\* Screen vertices given to the rasterizer directly: the corners of the
\* target, a point inside it and two of the points outside it that
\* TransformVertex can produce (it lets normalised coordinates up to 1.5 pass)
ScreenPoints ==
    {[x |-> p[1], y |-> p[2]] :
        p \in {<<0, 0>>, <<DISPLAY_WIDTH - 1, 0>>, <<0, DISPLAY_HEIGHT - 1>>,
               <<1, 1>>, <<-1, 1>>, <<DISPLAY_WIDTH + 1, DISPLAY_HEIGHT>>}}

RastNext ==
    \/ Rasterizer_Init
    \/ \E d \in BOOLEAN : Rasterizer_SetDevice(d)
    \/ Rasterizer_ResetStats
    \/ \E v0 \in ScreenPoints, v1 \in ScreenPoints, v2 \in ScreenPoints :
            Rasterizer_DrawTriangle(v0, v1, v2)
    \/ \E v0 \in ScreenPoints, v1 \in ScreenPoints, v2 \in ScreenPoints :
            Rasterizer_DrawTriangleSolid(v0, v1, v2)

----------------------------------------------------------------------------
(* Rasterizer on the framebuffer (rasterizer.cpp, build without SDL_PC) *)

\* the number of rasterizer calls in a run on the framebuffer
MaxFbOps == 4

\* Depths are counted in halves: a depth is the numerator of z = n / DepthDen
DepthDen == 2
Depths == 0 .. DepthDen

\* COLOR_RED and COLOR_BLUE; the framebuffer starts black
COLOR_BLACK == 0
COLOR_RED == 63488
COLOR_BLUE == 31
Colors == {COLOR_RED, COLOR_BLUE}

\* what Rasterizer_ClearDepth stores in every word of the depth buffer
DEPTH_CLEAR == 65535

Pixels == (0 .. (DISPLAY_WIDTH - 1)) \X (0 .. (DISPLAY_HEIGHT - 1))

\* static state at start: no framebuffer, the depth buffer zeroed (.bss)
FbInitState ==
    /\ g_framebuffer = FALSE
    /\ framebuffer = [p \in Pixels |-> COLOR_BLACK]
    /\ zbuffer = [p \in Pixels |-> 0]
    /\ depth_cleared = FALSE
    /\ fragments = {}

\* a call on the framebuffer
FbCalled(op, tri, put) ==
    /\ rast_call' = [NoRastCall EXCEPT !.op = op, !.tri = tri, !.put = put]
    /\ rast_ops' = rast_ops + 1
    /\ UNCHANGED <<g_device, g_pixels, camera_vars>>
    /\ UNCHANGED <<mesh_vars, xf_vars, anim_vars>>

\* void Rasterizer_SetFrameBuffer(uint16_t* fb)
Rasterizer_SetFrameBuffer ==
    /\ rast_ops < MaxFbOps
    /\ g_framebuffer' = TRUE
    /\ UNCHANGED <<framebuffer, zbuffer, depth_cleared, fragments, g_stats>>
    /\ FbCalled("Rasterizer_SetFrameBuffer", <<>>, {})

\* void Rasterizer_ClearDepth(void)
Rasterizer_ClearDepth ==
    /\ rast_ops < MaxFbOps
    /\ zbuffer' = [p \in Pixels |-> DEPTH_CLEAR]
    /\ depth_cleared' = TRUE
    /\ fragments' = {}
    /\ UNCHANGED <<g_framebuffer, framebuffer, g_stats>>
    /\ FbCalled("Rasterizer_ClearDepth", <<>>, {})

\* void Rasterizer_Clear(uint16_t color)
Rasterizer_Clear(color) ==
    /\ rast_ops < MaxFbOps
    /\ IF g_framebuffer
       THEN /\ framebuffer' = [p \in Pixels |-> color]
            /\ zbuffer' = [p \in Pixels |-> DEPTH_CLEAR]
            /\ depth_cleared' = TRUE
            /\ fragments' = {}
            /\ g_stats' = ZeroStats
       ELSE UNCHANGED <<framebuffer, zbuffer, depth_cleared, fragments, g_stats>>
    /\ UNCHANGED g_framebuffer
    /\ FbCalled("Rasterizer_Clear", <<>>, {})

\* uint16_t z16 = (uint16_t)(z), for z = depth / DepthDen
Z16(depth) == depth \div DepthDen

\* Rasterizer_DrawTriangle (texture NULL) and Rasterizer_DrawTriangleSolid on
\* the framebuffer, for a triangle whose vertices have the same depth and
\* colour: every covered pixel is depth-tested and written, and pixels_drawn
\* counts the pixels written.
FbDrawCalled(op, v0, v1, v2, depth, color) ==
    /\ rast_ops < MaxFbOps
    /\ IF ~g_framebuffer
       THEN /\ UNCHANGED <<framebuffer, zbuffer, fragments, g_stats>>
            /\ FbCalled(op, <<v0, v1, v2>>, {})
       ELSE \E r \in {IF op = "Rasterizer_DrawTriangle"
                      THEN Rasterize(g_stats, v0, v1, v2)
                      ELSE RasterizeSolid(g_stats, v0, v1, v2)} :
              \E passed \in {{p \in r.put : Z16(depth) < zbuffer[p]}} :
                /\ zbuffer' = [p \in Pixels |->
                                IF p \in passed THEN Z16(depth) ELSE zbuffer[p]]
                /\ framebuffer' = [p \in Pixels |->
                                    IF p \in passed THEN color ELSE framebuffer[p]]
                /\ g_stats' = [r.stats EXCEPT
                                !.pixels_drawn = g_stats.pixels_drawn + Cardinality(passed)]
                /\ fragments' = fragments
                        \cup {[p |-> q, z |-> depth, color |-> color] : q \in r.put}
                /\ FbCalled(op, <<v0, v1, v2>>, r.put)
    /\ UNCHANGED <<g_framebuffer, depth_cleared>>

\* Two triangles of positive area that share pixels
FbTriangles ==
    {<<[x |-> 0, y |-> 0], [x |-> DISPLAY_WIDTH - 1, y |-> 0], [x |-> 0, y |-> DISPLAY_HEIGHT - 1]>>,
     <<[x |-> 0, y |-> 0], [x |-> DISPLAY_WIDTH - 1, y |-> 0], [x |-> 1, y |-> 1]>>}

FbNext ==
    \/ Rasterizer_SetFrameBuffer
    \/ Rasterizer_ClearDepth
    \/ \E c \in {COLOR_BLACK} : Rasterizer_Clear(c)
    \/ \E t \in FbTriangles, d \in Depths, c \in Colors :
            FbDrawCalled("Rasterizer_DrawTriangle", t[1], t[2], t[3], d, c)
    \/ \E t \in FbTriangles, d \in Depths, c \in Colors :
            FbDrawCalled("Rasterizer_DrawTriangleSolid", t[1], t[2], t[3], d, c)

----------------------------------------------------------------------------
(* Render paths (main.cpp) *)

\* Lengths are counted in units of 0.05: the near plane test
\* view_pos.z >= -0.1f is z >= -2, near_plane = 0.1f is 2 and
\* far_plane = 100.0f is 2000.
NearClipZ == -2
NEAR_PLANE == 2
FAR_PLANE == 2000

\* h of Mesh_CreateCube(1.0f) and hw = hh of Mesh_CreatePlane(10.0f, 10.0f)
CubeHalf == 10
PlaneHalf == 100

\* v[0 .. 23] of Mesh_CreateCube and v[0 .. 3] of Mesh_CreatePlane: positions
CubePositions ==
    LET h == CubeHalf
    IN  << <<-h, -h, h>>, <<h, -h, h>>, <<h, h, h>>, <<-h, h, h>>,
           <<h, -h, -h>>, <<-h, -h, -h>>, <<-h, h, -h>>, <<h, h, -h>>,
           <<-h, h, h>>, <<h, h, h>>, <<h, h, -h>>, <<-h, h, -h>>,
           <<-h, -h, -h>>, <<h, -h, -h>>, <<h, -h, h>>, <<-h, -h, h>>,
           <<h, -h, h>>, <<h, -h, -h>>, <<h, h, -h>>, <<h, h, h>>,
           <<-h, -h, -h>>, <<-h, -h, h>>, <<-h, h, h>>, <<-h, h, -h>> >>
PlanePositions ==
    LET h == PlaneHalf
    IN  << <<-h, 0, -h>>, <<h, 0, -h>>, <<h, 0, h>>, <<-h, 0, h>> >>

\* g_vertex_pool[k].position
PositionOf(r) ==
    CASE r.run.kind = "Mesh_CreateCube" -> CubePositions[r.off + 1]
      [] r.run.kind = "Mesh_CreatePlane" -> PlanePositions[r.off + 1]
      [] r.run.kind = "list" -> r.run.src[r.off + 1].position
      [] OTHER -> <<0, 0, 0>>
PositionAt(pool, k) == PositionOf(PoolAt(pool, k))

\* Mat4_Perspective(&g_proj_matrix, fov, aspect, 0.1f, 100.0f) with
\* aspect = SCREEN_WIDTH / SCREEN_HEIGHT.  The field of view is taken as a
\* quarter turn, for which tanf(fov / 2) is 1, and the matrix is kept
\* multiplied by DISPLAY_WIDTH * (far - near), which makes its entries
\* integers and leaves every quotient clip / clip.w as it is.
Mat4_Perspective ==
    LET k == DISPLAY_WIDTH * (FAR_PLANE - NEAR_PLANE)
    IN  [Mat4_Zero EXCEPT ![1] = DISPLAY_HEIGHT * (FAR_PLANE - NEAR_PLANE),
                          ![6] = k,
                          ![11] = -(FAR_PLANE * DISPLAY_WIDTH),
                          ![12] = -k,
                          ![15] = -(FAR_PLANE * NEAR_PLANE * DISPLAY_WIDTH)]

\* (int32_t) of the quotient n / d of two floats, d > 0: towards zero
TruncDiv(n, d) == IF n >= 0 THEN n \div d ELSE -((-n) \div d)

\* a vertex that TransformVertex returned 0 for (*out is left unwritten)
Rejected(view_pos) == [ok |-> FALSE, x |-> 0, y |-> 0, view_z |-> view_pos[3]]

\* static int TransformVertex(const Vertex_t* in, const Mat4* model, ScreenVertex_t* out)
\* (of *out the screen x and y are kept)
TransformVertex(position, model, view, proj) ==
    LET world_pos == Mat4_MultiplyVec4(model, <<position[1], position[2], position[3], 1>>)
        view_pos == Mat4_MultiplyVec4(view, world_pos)
        clip_pos == Mat4_MultiplyVec4(proj, view_pos)
        w == clip_pos[4]
    IN  IF view_pos[3] >= NearClipZ THEN Rejected(view_pos)
        ELSE IF w <= 0 THEN Rejected(view_pos)
        ELSE IF 2 * clip_pos[1] < -3 * w \/ 2 * clip_pos[1] > 3 * w THEN Rejected(view_pos)
        ELSE IF 2 * clip_pos[2] < -3 * w \/ 2 * clip_pos[2] > 3 * w THEN Rejected(view_pos)
        ELSE IF clip_pos[3] < 0 \/ clip_pos[3] > w THEN Rejected(view_pos)
        ELSE [ok |-> TRUE,
              x |-> TruncDiv(DISPLAY_WIDTH * (clip_pos[1] + w), 2 * w),
              y |-> TruncDiv(DISPLAY_HEIGHT * (w - clip_pos[2]), 2 * w),
              view_z |-> view_pos[3]]

\* what a render call has done so far: the statistics, the pixels given to
\* Device::PutPixel and the rasterizer calls made; solid tells whether its
\* triangles go to Rasterizer_DrawTriangleSolid or to Rasterizer_DrawTriangle
RenderStart(stats, solid) ==
    [stats |-> stats, put |-> {}, submitted |-> <<>>, solid |-> solid]

\* The triangle loop without the test of the second vertex
RenderTriangle_SecondUntested(acc, i, tri, model, device) ==
    LET sv0 == TransformVertex(tri[1], model, g_view_matrix, g_proj_matrix)
        sv1 == TransformVertex(tri[2], model, g_view_matrix, g_proj_matrix)
        sv2 == TransformVertex(tri[3], model, g_view_matrix, g_proj_matrix)
        cross == (sv1.x - sv0.x) * (sv2.y - sv0.y) - (sv1.y - sv0.y) * (sv2.x - sv0.x)
    IN  IF ~sv0.ok THEN acc
        ELSE IF ~sv2.ok THEN acc
        ELSE IF cross <= 0 THEN acc
        ELSE LET r == IF ~device THEN [stats |-> acc.stats, put |-> {}]
                      ELSE IF acc.solid THEN RasterizeSolid(acc.stats, sv0, sv1, sv2)
                      ELSE Rasterize(acc.stats, sv0, sv1, sv2)
             IN  [stats |-> r.stats,
                  put |-> acc.put \cup r.put,
                  submitted |-> Append(acc.submitted,
                                       [i |-> i, tri |-> <<sv0, sv1, sv2>>, put |-> r.put]),
                  solid |-> acc.solid]

\* One round of the triangle loop of RenderStaticMesh and RenderMD2Mesh for
\* the triangle with object-space vertices tri: the three TransformVertex
\* calls, the backface test and the rasterizer call.
RenderTriangle(acc, i, tri, model, device) ==
    LET sv0 == TransformVertex(tri[1], model, g_view_matrix, g_proj_matrix)
        sv1 == TransformVertex(tri[2], model, g_view_matrix, g_proj_matrix)
        sv2 == TransformVertex(tri[3], model, g_view_matrix, g_proj_matrix)
        cross == (sv1.x - sv0.x) * (sv2.y - sv0.y) - (sv1.y - sv0.y) * (sv2.x - sv0.x)
    IN  IF ~sv0.ok THEN acc
        ELSE IF ~sv1.ok THEN acc
        ELSE IF ~sv2.ok THEN acc
        ELSE IF cross <= 0 THEN acc
        ELSE LET r == IF ~device THEN [stats |-> acc.stats, put |-> {}]
                      ELSE IF acc.solid THEN RasterizeSolid(acc.stats, sv0, sv1, sv2)
                      ELSE Rasterize(acc.stats, sv0, sv1, sv2)
             IN  [stats |-> r.stats,
                  put |-> acc.put \cup r.put,
                  submitted |-> Append(acc.submitted,
                                       [i |-> i, tri |-> <<sv0, sv1, sv2>>, put |-> r.put]),
                  solid |-> acc.solid]

\* the triangle loop from triangle k on
RECURSIVE RenderTriangles(_, _, _, _, _)
RenderTriangles(acc, tris, k, model, device) ==
    IF k > Len(tris) THEN acc
    ELSE RenderTriangles(RenderTriangle(acc, k, tris[k], model, device),
                         tris, k + 1, model, device)

\* the rounds of a loop for (i = 0; i < index_count; i += 3)
TriangleRounds(index_count) == (index_count + 2) \div 3

\* a render call that read the triangles tris and drew them
Rendered(op, solid, mesh_id, model, tris) ==
    /\ \E acc \in {RenderTriangles(RenderStart(g_stats, solid), tris, 1, model, g_device)} :
        /\ g_stats' = acc.stats
        /\ g_pixels' = g_pixels \cup acc.put
        /\ rast_call' = [op |-> op, tri |-> <<>>, put |-> acc.put,
                         submitted |-> acc.submitted, mesh_id |-> mesh_id,
                         model |-> model, verts |-> tris]
    /\ rast_ops' = rast_ops + 1
    /\ UNCHANGED <<g_device, camera_vars>>
    /\ UNCHANGED <<mesh_vars, xf_vars, anim_vars, fb_vars>>

\* static void RenderStaticMesh(uint32_t mesh_id, const Mat4* model_matrix, uint16_t color)
RenderStaticMesh(mesh_id, model) ==
    /\ rast_ops < MaxRastOps
    /\ IF ~Mesh_Get(g_meshes, mesh_id) THEN Rendered("RenderStaticMesh", TRUE, mesh_id, model, <<>>)
       ELSE IF g_meshes[mesh_id].type # 1
            \/ ~(g_meshes[mesh_id].stat.vertex_start < MAX_TOTAL_VERTICES)
            \/ ~(g_meshes[mesh_id].stat.index_start < MAX_TOTAL_INDICES)
            \/ g_meshes[mesh_id].stat.index_count = 0
       THEN Rendered("RenderStaticMesh", TRUE, mesh_id, model, <<>>)
       ELSE LET stat == g_meshes[mesh_id].stat
                V(k) == PositionAt(g_vertex_pool,
                                   stat.vertex_start + IndexAt(g_index_pool, stat.index_start + k))
            IN  Rendered("RenderStaticMesh", TRUE, mesh_id, model,
                         [t \in 1 .. TriangleRounds(stat.index_count) |->
                            <<V(3 * t - 3), V(3 * t - 2), V(3 * t - 1)>>])

\* static void RenderMD2Mesh(uint32_t mesh_id, const Mat4* model_matrix,
\*     uint16_t frame_a, uint16_t frame_b, float lerp, TextureSlot_t* texture)
\* (texture tells whether the texture argument is non-NULL: with a texture
\* the triangles go to Rasterizer_DrawTriangle, without one to
\* Rasterizer_DrawTriangleSolid)
RenderMD2Mesh(mesh_id, model, frame_a, frame_b, lerp, junk, texture) ==
    /\ rast_ops < MaxRastOps
    /\ IF ~Mesh_Get(g_meshes, mesh_id) THEN Rendered("RenderMD2Mesh", ~texture, mesh_id, model, <<>>)
       ELSE IF g_meshes[mesh_id].type # 2
            \/ ~(g_meshes[mesh_id].anim.index_start < MAX_TOTAL_INDICES)
       THEN Rendered("RenderMD2Mesh", ~texture, mesh_id, model, <<>>)
       ELSE LET anim == g_meshes[mesh_id].anim
                V(k) == Mesh_GetMD2Vertex(g_meshes, g_frame_pool, g_md2_vertex_pool, mesh_id,
                            IndexAt(g_index_pool, anim.index_start + k),
                            U16(frame_a), U16(frame_b), lerp, junk).pos
            IN  Rendered("RenderMD2Mesh", ~texture, mesh_id, model,
                         [t \in 1 .. TriangleRounds(anim.index_count) |->
                            <<V(3 * t - 3), V(3 * t - 2), V(3 * t - 1)>>])

\* static void UpdateCamera(void), for a camera at pos that is not rotated
UpdateCamera(pos) ==
    /\ rast_ops < MaxRastOps
    /\ g_view_matrix' =
            Mat4_Multiply(Mat4_Multiply(Mat4_RotationX(0), Mat4_RotationY(0)),
                          Mat4_Translation(-pos[1], -pos[2], -pos[3]))
    /\ g_proj_matrix' = Mat4_Perspective
    /\ UNCHANGED <<g_device, g_stats, g_pixels>>
    /\ RastCalled("UpdateCamera")

\* camera positions; the world matrices of the entities drawn: a cube or
\* plane in front of the camera, one whose nearest vertices lie on the near
\* plane, one that the near plane cuts; the last puts frame 0 of the MD2 mesh
\* before the camera and frame 1 across the edge of the view
CameraPositions == {<<0, 0, 0>>, <<0, 30, 0>>}
WorldMatrices ==
    {Mat4_Translation(0, 0, -30), Mat4_Translation(0, 0, -12),
     Mat4_Translation(0, 0, -5), Mat4_Translation(-70, -10, -20)}

RenderNext ==
    \/ Mesh_CreateCube
    \/ Mesh_CreatePlane
    \/ \E a \in {SmallMd2} : Mesh_LoadMD2(a)
    \/ \E pos \in CameraPositions : UpdateCamera(pos)
    \/ \E d \in BOOLEAN : Rasterizer_SetDevice(d)
    \/ \E m \in MeshIds, model \in WorldMatrices : RenderStaticMesh(m, model)
    \/ \E m \in MeshIds, model \in WorldMatrices, f \in {0, 1}, fb \in {0, 1} :
            \E texture \in BOOLEAN : RenderMD2Mesh(m, model, f, fb, <<1, 2>>, 0, texture)

----------------------------------------------------------------------------
(* Claims about the rasterizer *)

\* the last step was a call of one of the two triangle functions
DrawStep ==
    /\ rast_ops' = rast_ops + 1
    /\ rast_call'.op \in {"Rasterizer_DrawTriangle", "Rasterizer_DrawTriangleSolid"}

\* (x1 - x0) * (y2 - y0) - (y1 - y0) * (x2 - x0)
SignedArea(tri) ==
    (tri[2].x - tri[1].x) * (tri[3].y - tri[1].y)
        - (tri[2].y - tri[1].y) * (tri[3].x - tri[1].x)

\* C19: with a render target set, Rasterizer_DrawTriangle and
\* Rasterizer_DrawTriangleSolid called with a triangle whose signed area is
\* negative or zero write no pixel and no depth value, add one to
\* triangles_submitted and to triangles_culled, and leave triangles_drawn and
\* pixels_drawn as they were.
C19_BackfaceCulled ==
    [][(DrawStep /\ g_device /\ SignedArea(rast_call'.tri) <= 0)
        => /\ rast_call'.put = {}
           /\ g_pixels' = g_pixels
           /\ g_stats'.triangles_submitted = g_stats.triangles_submitted + 1
           /\ g_stats'.triangles_culled = g_stats.triangles_culled + 1
           /\ g_stats'.triangles_drawn = g_stats.triangles_drawn
           /\ g_stats'.pixels_drawn = g_stats.pixels_drawn]_rast_vars

\* C19 witness: after a triangle that was drawn, a clockwise triangle over the
\* same pixels has been culled
C19_Witness ==
    /\ g_device
    /\ rast_call.op = "Rasterizer_DrawTriangle"
    /\ SignedArea(rast_call.tri) < 0
    /\ g_stats.triangles_submitted = 2
    /\ g_stats.triangles_culled = 1
    /\ g_stats.triangles_drawn = 1
    /\ g_pixels # {}

\* the clamped bounding box of a triangle on the target
ClampedBox(tri) ==
    (Clampi(Min3i(tri[1].x, tri[2].x, tri[3].x), 0, DISPLAY_WIDTH - 1)
        .. Clampi(Max3i(tri[1].x, tri[2].x, tri[3].x), 0, DISPLAY_WIDTH - 1))
    \X (Clampi(Min3i(tri[1].y, tri[2].y, tri[3].y), 0, DISPLAY_HEIGHT - 1)
        .. Clampi(Max3i(tri[1].y, tri[2].y, tri[3].y), 0, DISPLAY_HEIGHT - 1))

\* the pixels of the box at which no edge function of the triangle is negative
InsidePixels(tri) ==
    {p \in ClampedBox(tri) :
        /\ EdgeFunction(tri[2].x, tri[2].y, tri[3].x, tri[3].y, p[1], p[2]) >= 0
        /\ EdgeFunction(tri[3].x, tri[3].y, tri[1].x, tri[1].y, p[1], p[2]) >= 0
        /\ EdgeFunction(tri[1].x, tri[1].y, tri[2].x, tri[2].y, p[1], p[2]) >= 0}

\* C23: for a triangle of positive signed area, Rasterizer_DrawTriangle (edge
\* values stepped per pixel and per row) and Rasterizer_DrawTriangleSolid (edge
\* functions evaluated at every pixel) cover the same pixels: those of the
\* clamped bounding box at which the three edge functions are non-negative.
C23_VariantsCoverSame ==
    [][(DrawStep /\ g_device /\ SignedArea(rast_call'.tri) > 0)
        => rast_call'.put = InsidePixels(rast_call'.tri)]_rast_vars

\* C23 witness: the stepping variant has drawn a triangle that covers pixels
\* in more than one row and more than one column, but not its whole box
C23_Witness ==
    /\ g_device
    /\ rast_call.op = "Rasterizer_DrawTriangle"
    /\ SignedArea(rast_call.tri) > 0
    /\ rast_call.put # ClampedBox(rast_call.tri)
    /\ \E p \in rast_call.put, q \in rast_call.put : p[1] # q[1] /\ p[2] # q[2]

\* the fragments produced at pixel p since the depth buffer was cleared
FragmentsAt(p) == {f \in fragments : f.p = p}

\* C24: on the framebuffer, after Rasterizer_ClearDepth, of two fragments that
\* cover the same pixel with depths z1 < z2 in [0, 1] the nearer one gives the
\* pixel its final colour, in whichever order the two triangles are drawn.
C24_NearerFragmentWins ==
    depth_cleared => \A p \in Pixels :
        \A f1 \in FragmentsAt(p), f2 \in FragmentsAt(p) :
            (FragmentsAt(p) = {f1, f2} /\ f1.z < f2.z) => framebuffer[p] = f1.color

----------------------------------------------------------------------------
(* Claims about the render paths *)

RenderOps == {"RenderStaticMesh", "RenderMD2Mesh"}

\* the view-space z of an object-space position under the world matrix model
ViewZ(position, model) ==
    Mat4_MultiplyVec4(g_view_matrix,
        Mat4_MultiplyVec4(model, <<position[1], position[2], position[3], 1>>))[3]

\* the vertices of the triangle pass TransformVertex
AllPass(tri, model) ==
    \A j \in 1 .. 3 : TransformVertex(tri[j], model, g_view_matrix, g_proj_matrix).ok

\* the triangles (loop rounds) of the last render call that reached the
\* rasterizer
SubmittedRounds == {rast_call.submitted[k].i : k \in 1 .. Len(rast_call.submitted)}

\* C20: in RenderStaticMesh and RenderMD2Mesh a triangle is given to the
\* rasterizer only if its three vertices pass TransformVertex; a vertex whose
\* view-space z is >= -0.1 is rejected, and a triangle with such a vertex
\* causes no rasterizer call and no pixel write (the pixels the call wrote are
\* those of the triangles submitted).
C20_AllThreePass ==
    rast_call.op \in RenderOps =>
        /\ \A t \in 1 .. Len(rast_call.verts) :
            /\ t \in SubmittedRounds => AllPass(rast_call.verts[t], rast_call.model)
            /\ (\E j \in 1 .. 3 : ViewZ(rast_call.verts[t][j], rast_call.model) >= NearClipZ)
                    => t \notin SubmittedRounds
        /\ rast_call.put =
                UNION {rast_call.submitted[k].put : k \in 1 .. Len(rast_call.submitted)}

\* C20 witness: a render call with a device set has drawn pixels of one
\* triangle and has skipped another triangle that has a vertex on or behind the
\* near plane and a vertex that passes
C20_Witness ==
    /\ rast_call.op \in RenderOps
    /\ g_device
    /\ \E k \in 1 .. Len(rast_call.submitted) : rast_call.submitted[k].put # {}
    /\ \E t \in 1 .. Len(rast_call.verts) :
        /\ t \notin SubmittedRounds
        /\ \E j \in 1 .. 3 : ViewZ(rast_call.verts[t][j], rast_call.model) >= NearClipZ
        /\ \E j \in 1 .. 3 :
                TransformVertex(rast_call.verts[t][j], rast_call.model,
                                g_view_matrix, g_proj_matrix).ok

----------------------------------------------------------------------------
(* Specifications *)

\* The entity tables after Entity_Init, before any entity call
EntityInitState ==
    /\ g_entities = EntityInit.ents
    /\ g_transforms = EntityInit.xf
    /\ g_animators = EntityInit.anim
    /\ g_next_id = EntityInit.next_id

XformIdle == xf_call = NoXformCall /\ xf_passes = 0 /\ xf_ops = 0
AnimIdle == anim_call = NoAnimCall /\ anim_ops = 0
RastIdle == RastInitState /\ FbInitState

\* The mesh pools on their own: no entity exists
MeshOnly == MeshInitState /\ EntityInitState /\ XformIdle /\ AnimIdle /\ RastIdle
SpecMesh == MeshOnly /\ [][MeshNext]_vars

\* the loaders and evaluators alone, on files with contents
SpecLoad == MeshOnly /\ [][LoadNext]_vars

\* the mesh-creating calls and Mesh_Free, on files with contents
SpecPool == MeshOnly /\ [][PoolNext]_vars

\* the rasterizer on its own
RastOnly == MeshInitState /\ EntityInitState /\ XformIdle /\ AnimIdle /\ RastIdle
SpecRast == RastOnly /\ [][RastNext]_vars

\* the render paths on the meshes created before
SpecRender == RastOnly /\ [][RenderNext]_vars

\* the rasterizer calls on the framebuffer
SpecFb == RastOnly /\ [][FbNext]_vars

\* The transform hierarchy on its own: no mesh is loaded
XformOnly == XformInit /\ MeshInitState /\ AnimIdle /\ RastIdle
SpecXform == XformOnly /\ [][XformNext]_vars

\* the entity calls on scenes whose parents are all live
ParentOnly == ParentInit /\ MeshInitState /\ AnimIdle /\ RastIdle
SpecParent == ParentOnly /\ [][ParentNext]_vars

\* The animators on their own
AnimOnly == AnimInit /\ MeshInitState /\ XformIdle /\ RastIdle
SpecAnim == AnimOnly /\ [][AnimNext]_vars

\* an animator under the ticks of the main loop, which never stops calling
TickOnly == TickInit /\ MeshInitState /\ XformIdle /\ RastIdle
SpecTick == TickOnly /\ [][TickNext]_vars /\ WF_vars(TickNext)

\* the animators of entities that are destroyed and created again
SpecReuse == AnimOnly /\ [][ReuseNext]_vars

----------------------------------------------------------------------------
(* Properties of the transform hierarchy *)

\* The last step was the call op
XformStep(op) == xf_ops' = xf_ops + 1 /\ xf_call'.op = op

\* Following parent handles from slot i reaches an entity without a parent
\* through live entities only, i itself included, in at most k entities
RECURSIVE RootWithin(_, _, _, _)
RootWithin(ents, xf, i, k) ==
    IF k = 0 THEN FALSE
    ELSE IF xf[i].parent = INVALID_ENTITY THEN TRUE
    ELSE /\ FindIndex(ents, xf[i].parent) >= 0
         /\ RootWithin(ents, xf, FindIndex(ents, xf[i].parent), k - 1)

\* r -> m -> l is a parent chain of live entities with no rotation and unit
\* scale
PlainChain(r, m, l) ==
    /\ {r, m, l} \subseteq LiveSlots(g_entities)
    /\ r # m /\ m # l /\ r # l
    /\ g_transforms[r].parent = INVALID_ENTITY
    /\ g_transforms[m].parent = g_entities[r].id
    /\ g_transforms[l].parent = g_entities[m].id
    /\ \A i \in {r, m, l} :
        g_transforms[i].rotation = Vec3_Zero /\ g_transforms[i].scale = Vec3_One

\* C5: in a resolved parent chain root -> middle -> leaf with no rotation and
\* unit scale, Transform_SetPosition moving the root by d followed by one
\* Entity_UpdateTransforms moves the world origins of middle and leaf by d.
C5_RootMoveReachesDescendants ==
    [][ ( /\ xf_call.op = "Transform_SetPosition"
          /\ xf_call.dirty_before = {}
          /\ XformStep("Entity_UpdateTransforms") )
        => \A r, m, l \in EntitySlots :
            (PlainChain(r, m, l) /\ g_entities[r].id = xf_call.id)
            => \A i \in {m, l} :
                Mat4_Origin(g_transforms'[i].world_matrix)
                    = Vec3_Add(Mat4_Origin(g_transforms[i].world_matrix),
                               xf_call.delta) ]_vars

\* Every live entity is dirty and sits in an acyclic hierarchy of live
\* entities whose chains hold at most MAX_PASSES entities
DirtyForest ==
    /\ DirtySlots(g_entities, g_transforms) = LiveSlots(g_entities)
    /\ \A i \in LiveSlots(g_entities) :
        RootWithin(g_entities, g_transforms, i, MAX_PASSES)

\* C6: when every live entity is dirty and the hierarchy is acyclic with at
\* most 8 entities on a chain, whatever slots the entities sit in, one
\* Entity_UpdateTransforms leaves no entity dirty and every world matrix
\* equal to the parent's world matrix times the local matrix (the local
\* matrix for an entity without parent).
C6_ForestResolvedInOneUpdate ==
    [][ (DirtyForest /\ XformStep("Entity_UpdateTransforms"))
        => \A i \in LiveSlots(g_entities) :
            /\ g_transforms'[i].dirty = 0
            /\ g_transforms'[i].world_matrix =
                IF g_transforms[i].parent = INVALID_ENTITY
                THEN g_transforms'[i].local_matrix
                ELSE Mat4_Multiply(
                        g_transforms'[FindIndex(g_entities,
                                                g_transforms[i].parent)].world_matrix,
                        g_transforms'[i].local_matrix) ]_vars

\* A chain of MAX_PASSES entities, every child in a lower slot than its
\* parent and all of them dirty, has been resolved by one update that took
\* every sweep
C6_Witness ==
    /\ xf_call.op = "Entity_UpdateTransforms"
    /\ xf_call.dirty_before = LiveSlots(g_entities)
    /\ LiveSlots(g_entities) = 0 .. (MAX_PASSES - 1)
    /\ \A i \in LiveSlots(g_entities) :
        g_transforms[i].parent =
            IF i = MAX_PASSES - 1 THEN INVALID_ENTITY ELSE g_entities[i + 1].id
    /\ xf_passes = MAX_PASSES
    /\ DirtySlots(g_entities, g_transforms) = {}
    /\ g_transforms[0].world_matrix # g_transforms[0].local_matrix

\* C7: Entity_UpdateTransforms makes at most 8 sweeps whatever the parent
\* graph; an entity whose parent handles lead into a cycle or to a handle of
\* no live entity is dirty on return with its world matrix unchanged, and
\* an entity whose parent handles reach a root within 8 entities is clean.
C7_UnresolvableStayDirty ==
    [][ XformStep("Entity_UpdateTransforms")
        => /\ xf_passes' <= MAX_PASSES
           /\ \A i \in LiveSlots(g_entities) :
                /\ ~RootWithin(g_entities, g_transforms, i, MAX_ENTITIES)
                    => /\ g_transforms'[i].dirty # 0
                       /\ g_transforms'[i].world_matrix = g_transforms[i].world_matrix
                /\ RootWithin(g_entities, g_transforms, i, MAX_PASSES)
                    => g_transforms'[i].dirty = 0 ]_vars

\* No live entity has the entity in slot i as its parent
IsLeaf(i) ==
    \A j \in LiveSlots(g_entities) : g_transforms[j].parent # g_entities[i].id

\* C8: Transform_SetPosition, Transform_SetRotation and Transform_SetScale
\* on a live entity set its dirty flag and leave every other entity's dirty
\* flag, local matrix and world matrix alone; an Entity_UpdateTransforms
\* with a single leaf dirty changes the matrices of that leaf and nothing
\* else.
C8_SettersAndLeafUpdateAreLocal ==
    [][ /\ ( /\ \/ XformStep("Transform_SetPosition")
                \/ XformStep("Transform_SetRotation")
                \/ XformStep("Transform_SetScale")
             /\ FindIndex(g_entities, xf_call'.id) >= 0 )
            => /\ g_transforms'[FindIndex(g_entities, xf_call'.id)].dirty = 1
               /\ \A j \in EntitySlots \ {FindIndex(g_entities, xf_call'.id)} :
                    /\ g_transforms'[j].dirty = g_transforms[j].dirty
                    /\ g_transforms'[j].local_matrix = g_transforms[j].local_matrix
                    /\ g_transforms'[j].world_matrix = g_transforms[j].world_matrix
        /\ XformStep("Entity_UpdateTransforms")
            => \A i \in EntitySlots :
                (DirtySlots(g_entities, g_transforms) = {i} /\ IsLeaf(i))
                => /\ \A j \in EntitySlots \ {i} : g_transforms'[j] = g_transforms[j]
                   /\ g_transforms'[i] =
                        [g_transforms[i] EXCEPT
                            !.local_matrix = g_transforms'[i].local_matrix,
                            !.world_matrix = g_transforms'[i].world_matrix,
                            !.dirty = g_transforms'[i].dirty] ]_vars

\* A leaf with a sibling, moved to (5, 0, 0) by Transform_SetPosition, was
\* the only dirty entity of the update that resolved it under its parent
C8_Witness ==
    /\ xf_call.op = "Entity_UpdateTransforms"
    /\ \E i, j \in LiveSlots(g_entities) :
        /\ i # j
        /\ xf_call.dirty_before = {i}
        /\ IsLeaf(i)
        /\ g_transforms[i].parent # INVALID_ENTITY
        /\ g_transforms[j].parent = g_transforms[i].parent
        /\ g_transforms[i].position = <<5, 0, 0>>
        /\ g_transforms[i].dirty = 0
        /\ Mat4_Origin(g_transforms[i].world_matrix) = <<6, 0, 0>>

\* every live entity's parent is INVALID_ENTITY or a live entity
ParentsLive(ents, xf) ==
    \A i \in EntitySlots :
        ents[i].id # INVALID_ENTITY =>
            (xf[i].parent = INVALID_ENTITY \/ FindIndex(ents, xf[i].parent) >= 0)

\* C28: under Entity_Create, Entity_Destroy and Entity_SetParent(child, p)
\* with p live, every live entity's parent is INVALID_ENTITY or a live entity;
\* Entity_Destroy(id) resets the parent of every entity whose parent is id to
\* INVALID_ENTITY and marks it dirty, and after the next
\* Entity_UpdateTransforms the world matrix of each former child equals its
\* local matrix.
C28_ParentsStayLive ==
    [][/\ ParentsLive(g_entities', g_transforms')
       /\ (xf_call'.op = "Entity_Destroy" /\ FindIndex(g_entities, xf_call'.id) >= 0) =>
            \A i \in EntitySlots :
                g_transforms[i].parent = xf_call'.id =>
                    /\ g_transforms'[i].parent = INVALID_ENTITY
                    /\ g_transforms'[i].dirty = 1
       /\ xf_call'.op = "Entity_UpdateTransforms" =>
            \A i \in xf_call'.orphaned :
                g_transforms'[i].world_matrix = g_transforms'[i].local_matrix]_xf_vars

\* C28 witness: Entity_UpdateTransforms has run after an Entity_Destroy that
\* took the parent of a live entity placed away from the origin, whose world
\* matrix is now its local matrix
C28_Witness ==
    /\ xf_call.op = "Entity_UpdateTransforms"
    /\ \E i \in xf_call.orphaned :
        /\ g_entities[i].id # INVALID_ENTITY
        /\ g_transforms[i].parent = INVALID_ENTITY
        /\ g_transforms[i].world_matrix = g_transforms[i].local_matrix
        /\ g_transforms[i].world_matrix # Mat4_Identity

----------------------------------------------------------------------------
(* Properties of the animators *)

AnimStep(op) == anim_ops' = anim_ops + 1 /\ anim_call'.op = op

\* The frame_time of animator a accumulated over dt
Accumulated(a, dt) == a.frame_time + dt * a.playback_speed

C10_InterpolationInUnitRange ==
    [][ AnimStep("Entity_UpdateAnimators")
        => \A i \in Ticked(g_entities, g_animators) :
            ( /\ anim_call'.dt >= 0
              /\ g_animators[i].playback_speed > 0
              /\ g_animators[i].frame_time >= 0
              /\ g_animators[i].frame_time < FRAME_DURATION )
            => /\ 0 <= g_animators'[i].interpolation[1]
               /\ g_animators'[i].interpolation[1] < g_animators'[i].interpolation[2]
      ]_vars

----------------------------------------------------------------------------
(* Properties of the slots that are used again *)

\* the animator fields Entity_Create leaves to the slot
AnimatorState(a) ==
    <<a.start_frame, a.end_frame, a.current_frame, a.next_frame, a.frame_time,
      a.is_playing, a.is_looping>>

\* C29: the animator a new entity's handle gives does not depend on the
\* entities destroyed before: Entity_Create hands out the animator fields
\* (frame indices, frame_time, is_playing, is_looping) a slot has that no
\* entity ever occupied, which are those of Entity_Init.
C29_NewEntityFreshAnimator ==
    [][(xf_ops' = xf_ops + 1 /\ xf_call'.op = "Entity_Create"
            /\ xf_call'.id # INVALID_ENTITY) =>
        \A i \in EntitySlots :
            g_entities'[i].id = xf_call'.id =>
                AnimatorState(g_animators'[i]) = AnimatorState(EntityInit.anim[i])]_vars

----------------------------------------------------------------------------
(* Properties of an animator under repeated ticks *)

\* the animator of entity 1
TickedAnimator == g_animators[FindIndex(g_entities, 1)]

StoppedAtEnd(a) ==
    a.is_playing = 0 /\ a.current_frame = a.end_frame /\ a.next_frame = a.end_frame

\* C30: a playing animator inside its clip with playback_speed > 0, ticked
\* again and again with dt > 0, keeps current_frame and next_frame inside
\* [start_frame, end_frame]; when it does not loop, it eventually stops with
\* current_frame = next_frame = end_frame and no tick changes it after that;
\* when it loops, is_playing is never cleared and next_frame goes back to
\* start_frame after end_frame.
C30_AnimatorRuns ==
    /\ [](InClip(TickedAnimator, TickedAnimator.current_frame)
            /\ InClip(TickedAnimator, TickedAnimator.next_frame))
    /\ (TickedAnimator.is_looping = 0) ~> StoppedAtEnd(TickedAnimator)
    /\ [][TickedAnimator.is_playing = 0 => g_animators' = g_animators]_vars
    /\ [](TickedAnimator.is_looping # 0 => TickedAnimator.is_playing # 0)
    /\ (TickedAnimator.is_looping # 0
            /\ TickedAnimator.next_frame = TickedAnimator.end_frame)
         ~> (TickedAnimator.current_frame = TickedAnimator.end_frame
                /\ TickedAnimator.next_frame = TickedAnimator.start_frame)

====
